---- MODULE Spec2Model ----
(***************************************************************************)
(* Model of kimi_mcp.file_tracker.FileTracker: the before/after snapshot   *)
(* and diff of a directory tree, and the reading of changed files; of      *)
(* kimi_mcp.session.KimiSession, the one-shot or interactive run of the    *)
(* external kimi process; and of the five tool handlers of                 *)
(* kimi_mcp.server, which put the two together.                            *)
(*                                                                         *)
(* Strings are sequences of one-character strings.  A file name is such a  *)
(* string; a location in the tree is a sequence of names (the components   *)
(* below the working directory); the keys of a snapshot are the strings    *)
(* str(rel_path) built from them.  File content is a run-length encoded    *)
(* byte string, a sequence of runs [b |-> byte, n |-> count] in which      *)
(* adjacent runs have different bytes, so that files longer than the       *)
(* 8192-byte chunk are represented exactly.  Decoded text uses the same    *)
(* representation with code points for bytes.                              *)
(***************************************************************************)
EXTENDS Integers, Sequences, FiniteSets, TLC

VARIABLES
    fs,             \* the tree below working_dir: location -> [bytes, readable]
    initial_state,  \* FileTracker.initial_state: dict as a sequence of <<key, value>>
    final_state,    \* FileTracker.final_state
    lastOp,         \* the operation that ran last ("env" for a file system change)
    snap,           \* return value of the last snapshot() call
    created,        \* first component of the last detect_changes() result
    modified,       \* second component of the last detect_changes() result
    requested,      \* argument of the last read_file_contents() call
    contents,       \* return value of the last read_file_contents() call
    failed,         \* locations whose open() failed during the last walk
    calls,          \* whether take_initial_snapshot / take_final_snapshot ever ran
    unlistable,     \* directories whose listing the operating system refuses
    raised,         \* class of the exception the last operation let escape
    returned,       \* value the last calculate_checksum / is_binary_file /
                    \* send_prompt call returned
    interactive,    \* KimiSession.interactive
    process,        \* KimiSession.process: "None", or the child "alive" or "dead"
    trace,          \* the calls the last session or handler operation made, in order
    inputs,         \* what the environment answered to the last operation
    response,       \* the dict the last tool handler returned
    other,          \* a second FileTracker on the same working directory
    alias           \* the pairs of names bound to one and the same dict object

vars == <<fs, initial_state, final_state, lastOp, snap, created, modified,
          requested, contents, failed, calls, unlistable, raised,
          returned, interactive, process, trace, inputs, response, other, alias>>

\* the tracker, its results and the tree
tvars == <<fs, initial_state, final_state, snap, created, modified, requested,
           contents, failed, calls, unlistable, other, alias>>

\* the session and the handlers
svars == <<interactive, process, trace, inputs, response>>

-----------------------------------------------------------------------------
(* Names and the ignore sets of snapshot()                                 *)

DotGit == <<".", "g", "i", "t">>
PyCache == <<"_", "_", "p", "y", "c", "a", "c", "h", "e", "_", "_">>
DotVenv == <<".", "v", "e", "n", "v">>
DSStore == <<".", "D", "S", "_", "S", "t", "o", "r", "e">>
NodeModules == <<"n", "o", "d", "e", "_", "m", "o", "d", "u", "l", "e", "s">>

\* a plausible slip: one name is missing from the set
ignore_patterns_short == {DotGit, PyCache, DSStore, NodeModules}

ignore_patterns == {DotGit, PyCache, DotVenv, DSStore, NodeModules}

ignore_extensions == {<<".", "p", "y", "c">>}

NameA == <<"a">>
NameB == <<"b">>
NameD == <<"d">>
ModPyc == <<"m", ".", "p", "y", "c">>

\* str.endswith
EndsWith(s, suffix) ==
    /\ Len(s) >= Len(suffix)
    /\ SubSeq(s, Len(s) - Len(suffix) + 1, Len(s)) = suffix

Sep == "/"

\* str(rel_path): the components joined by the separator
RECURSIVE PathStr(_)
PathStr(loc) ==
    IF loc = <<>> THEN <<>>
    ELSE IF Len(loc) = 1 THEN Head(loc)
    ELSE Head(loc) \o <<Sep>> \o PathStr(Tail(loc))

\* working_dir / file_path: the components of a relative path string
RECURSIVE SplitPath(_, _)
SplitPath(s, cur) ==
    IF s = <<>> THEN (IF cur = <<>> THEN <<>> ELSE <<cur>>)
    ELSE IF Head(s) = Sep
         THEN (IF cur = <<>> THEN <<>> ELSE <<cur>>) \o SplitPath(Tail(s), <<>>)
         ELSE SplitPath(Tail(s), Append(cur, Head(s)))

JoinRoot(file_path) == SplitPath(file_path, <<>>)

-----------------------------------------------------------------------------
(* Byte strings                                                            *)

Run(b, n) == [b |-> b, n |-> n]

RECURSIVE Size(_)
Size(c) == IF c = <<>> THEN 0 ELSE Head(c).n + Size(Tail(c))

\* the first k bytes of c
RECURSIVE Take(_, _)
Take(c, k) ==
    IF k = 0 \/ c = <<>> THEN <<>>
    ELSE IF Head(c).n <= k
         THEN <<Head(c)>> \o Take(Tail(c), k - Head(c).n)
         ELSE <<Run(Head(c).b, k)>>

\* c without its first k bytes
RECURSIVE Drop(_, _)
Drop(c, k) ==
    IF k = 0 \/ c = <<>> THEN c
    ELSE IF Head(c).n <= k
         THEN Drop(Tail(c), k - Head(c).n)
         ELSE <<Run(Head(c).b, Head(c).n - k)>> \o Tail(c)

\* concatenation, merging the runs that meet
Cat(c1, c2) ==
    IF c1 = <<>> THEN c2
    ELSE IF c2 = <<>> THEN c1
    ELSE IF c1[Len(c1)].b = Head(c2).b
         THEN SubSeq(c1, 1, Len(c1) - 1)
                  \o <<Run(Head(c2).b, c1[Len(c1)].n + Head(c2).n)>>
                  \o Tail(c2)
         ELSE c1 \o c2

\* b"\x00" in chunk
HasNull(c) == \E i \in 1..Len(c) : c[i].b = 0

-----------------------------------------------------------------------------
(* hashlib.md5: the digest is a non-empty string fixed by the bytes fed to *)
(* it, whatever the chunking; the empty string "" is <<>>.                 *)

EmptyStr == <<>>

ChunkSize == 8192

Md5New == <<>>

Md5Update(acc, chunk) == Cat(acc, chunk)

Hexdigest(acc) == <<acc>>

\* open(path, ...) succeeds: a regular file that exists and may be read
CanOpen(tree, loc) == loc \in DOMAIN tree /\ tree[loc].readable

\* the while-loop of calculate_checksum
RECURSIVE ReadChunks(_, _)
ReadChunks(rest, md5) ==
    LET chunk == Take(rest, ChunkSize)
    IN  IF chunk = <<>> THEN md5
        ELSE ReadChunks(Drop(rest, ChunkSize), Md5Update(md5, chunk))

\* a plausible slip: the path is hashed together with the content
calculate_checksum_named(tree, loc) ==
    IF ~CanOpen(tree, loc) THEN EmptyStr
    ELSE Hexdigest(ReadChunks(tree[loc].bytes, Md5New)) \o <<loc>>

calculate_checksum(tree, loc) ==
    IF ~CanOpen(tree, loc) THEN EmptyStr
    ELSE Hexdigest(ReadChunks(tree[loc].bytes, Md5New))

\* a plausible slip: the prefix read is one byte short
BinaryProbe_short == 8192 - 1

BinaryProbe == 8192

is_binary_file(tree, loc) ==
    IF ~CanOpen(tree, loc) THEN FALSE
    ELSE HasNull(Take(tree[loc].bytes, BinaryProbe))

-----------------------------------------------------------------------------
(* Text decoding of open(path, "r", encoding=...).read()                   *)

DecodeError == [ok |-> FALSE, text |-> <<>>]

\* UTF-8 for one- and two-byte sequences; the byte alphabet of the model
\* holds no lead byte of a longer sequence (0xE0..0xF4)
RECURSIVE Utf8Decode(_)
Utf8Decode(c) ==
    IF c = <<>> THEN [ok |-> TRUE, text |-> <<>>]
    ELSE LET h == Head(c) IN
         IF h.b < 128
         THEN LET r == Utf8Decode(Tail(c))
              IN  IF r.ok THEN [ok |-> TRUE, text |-> Cat(<<h>>, r.text)]
                  ELSE DecodeError
         ELSE IF /\ h.b >= 194 /\ h.b <= 223 /\ h.n = 1
                 /\ Len(c) >= 2 /\ c[2].b >= 128 /\ c[2].b <= 191
         THEN LET r == Utf8Decode(Drop(Tail(c), 1))
                  cp == (h.b - 192) * 64 + (c[2].b - 128)
              IN  IF r.ok THEN [ok |-> TRUE, text |-> Cat(<<Run(cp, 1)>>, r.text)]
                  ELSE DecodeError
         ELSE DecodeError

\* Latin-1: every byte is the code point of the same number
Latin1Decode(c) == [ok |-> TRUE, text |-> [i \in 1..Len(c) |-> Run(c[i].b, c[i].n)]]

\* text mode with newline=None: "\r\n" and "\r" are read as "\n"
RECURSIVE UniversalNewlines(_)
UniversalNewlines(t) ==
    IF t = <<>> THEN <<>>
    ELSE LET h == Head(t) IN
         IF h.b = 13                                    \* "\r"
         THEN IF Len(t) >= 2 /\ t[2].b = 10             \* "\r\n"
              THEN Cat(<<Run(10, h.n)>>, UniversalNewlines(Drop(Tail(t), 1)))
              ELSE Cat(<<Run(10, h.n)>>, UniversalNewlines(Tail(t)))
         ELSE Cat(<<h>>, UniversalNewlines(Tail(t)))

\* with open(full_path, "r", encoding=...) as f: f.read()
ReadText(decoded) ==
    IF decoded.ok THEN [ok |-> TRUE, text |-> UniversalNewlines(decoded.text)]
    ELSE DecodeError

\* "[Binary file, not displayed]"
BinaryMarker ==
    LET cps == <<91, 66, 105, 110, 97, 114, 121, 32, 102, 105, 108, 101, 44, 32,
                 110, 111, 116, 32, 100, 105, 115, 112, 108, 97, 121, 101, 100, 93>>
    IN  [i \in 1..Len(cps) |-> Run(cps[i], 1)]

-----------------------------------------------------------------------------
(* dict: a sequence of <<key, value>> with distinct keys, in insertion     *)
(* order                                                                   *)

EmptyDict == <<>>

KeyList(d) == [i \in 1..Len(d) |-> d[i][1]]

Keys(d) == {d[i][1] : i \in 1..Len(d)}

Has(d, k) == \E i \in 1..Len(d) : d[i][1] = k

Get(d, k) == d[CHOOSE i \in 1..Len(d) : d[i][1] = k][2]

\* d[k] = v
Put(d, k, v) ==
    IF Has(d, k)
    THEN [i \in 1..Len(d) |-> IF d[i][1] = k THEN <<k, v>> ELSE d[i]]
    ELSE Append(d, <<k, v>>)

\* the elements of a list, as a set
Elems(list) == {list[i] : i \in 1..Len(list)}

-----------------------------------------------------------------------------
(* The directory tree and os.walk                                          *)

IsFile(tree, loc) == loc \in DOMAIN tree

\* directories are the proper prefixes of the files' locations
IsDir(tree, loc) ==
    \E p \in DOMAIN tree : Len(p) > Len(loc) /\ SubSeq(p, 1, Len(loc)) = loc

\* Path.exists()
Exists(tree, loc) == IsFile(tree, loc) \/ IsDir(tree, loc)

\* a plausible slip: dirs = [...] rebinds the name and prunes nothing
PruneDirs_rebound(dirs) == dirs

\* line 45: dirs[:] = [d for d in dirs if d not in ignore_patterns]
PruneDirs(dirs) == SelectSeq(dirs, LAMBDA d : d \notin ignore_patterns)

\* a plausible slip: the ignored names are skipped among the files as well
KeepFiles_named(files) ==
    SelectSeq(files, LAMBDA file :
        /\ file \notin ignore_patterns
        /\ ~(\E ext \in ignore_extensions : EndsWith(file, ext)))

\* lines 49-50: the files of one directory that are not skipped
KeepFiles(files) ==
    SelectSeq(files, LAMBDA file : ~(\E ext \in ignore_extensions : EndsWith(file, ext)))

\* The file paths the loops of lines 43-52 reach, in order.  os.walk lists a
\* directory in the order the operating system gives (order: a sequence of
\* all names), yields its files, and then descends into what is left in dirs;
\* a directory it cannot list yields nothing (onerror is None).
RECURSIVE WalkFiles(_, _, _)
WalkFiles(tree, root, order) ==
    IF root \in unlistable THEN <<>> ELSE
    LET dirs  == PruneDirs(SelectSeq(order, LAMBDA n : IsDir(tree, Append(root, n))))
        files == KeepFiles(SelectSeq(order, LAMBDA n : IsFile(tree, Append(root, n))))
        here  == [i \in 1..Len(files) |-> Append(root, files[i])]
        Below[i \in 0..Len(dirs)] ==
            IF i = 0 THEN <<>>
            ELSE Below[i - 1] \o WalkFiles(tree, Append(root, dirs[i]), order)
    IN  here \o Below[Len(dirs)]

\* a plausible slip: the checksum is stored without the test of line 57
RECURSIVE SnapshotLoop_unchecked(_, _, _)
SnapshotLoop_unchecked(tree, paths, snapshot) ==
    IF paths = <<>> THEN snapshot
    ELSE SnapshotLoop_unchecked(tree, Tail(paths),
                                Put(snapshot, PathStr(Head(paths)),
                                    calculate_checksum(tree, Head(paths))))

\* lines 52-58 for each file path: the dict after the loop
RECURSIVE SnapshotLoop(_, _, _)
SnapshotLoop(tree, paths, snapshot) ==
    IF paths = <<>> THEN snapshot
    ELSE LET file_path == Head(paths)
             rel_path  == PathStr(file_path)
             checksum  == calculate_checksum(tree, file_path)
         IN  SnapshotLoop(tree, Tail(paths),
                          IF checksum # EmptyStr
                          THEN Put(snapshot, rel_path, checksum)
                          ELSE snapshot)

\* FileTracker.snapshot: listed is the tree as os.walk lists it, opened the
\* tree as the files are opened (files may have vanished in between)
snapshot(listed, opened, order) ==
    SnapshotLoop(opened, WalkFiles(listed, <<>>, order), EmptyDict)

-----------------------------------------------------------------------------
(* FileTracker.detect_changes                                              *)

\* a plausible slip: every key of either snapshot that the other lacks
CreatedLoop_symmetric(initial, final) ==
    SelectSeq(KeyList(final), LAMBDA file_path : ~Has(initial, file_path))
        \o SelectSeq(KeyList(initial), LAMBDA file_path : ~Has(final, file_path))

\* lines 88-90
CreatedLoop(initial, final) ==
    SelectSeq(KeyList(final), LAMBDA file_path : ~Has(initial, file_path))

\* a plausible slip: the checksums are not compared
ModifiedLoop_nocompare(initial, final) ==
    SelectSeq(KeyList(final), LAMBDA file_path : Has(initial, file_path))

\* a plausible slip: initial_state.get(file_path) != final_state[file_path]
ModifiedLoop_get(initial, final) ==
    SelectSeq(KeyList(final),
              LAMBDA file_path : \/ ~Has(initial, file_path)
                                 \/ Get(initial, file_path) # Get(final, file_path))

\* lines 93-98
ModifiedLoop(initial, final) ==
    SelectSeq(KeyList(final),
              LAMBDA file_path : /\ Has(initial, file_path)
                                 /\ Get(initial, file_path) # Get(final, file_path))

detect_changes(initial, final) ==
    <<CreatedLoop(initial, final), ModifiedLoop(initial, final)>>

-----------------------------------------------------------------------------
(* FileTracker.read_file_contents                                          *)

\* a plausible slip: no second attempt after UnicodeDecodeError
ReadTextFile_nofallback(tree, loc) ==
    IF ~CanOpen(tree, loc) THEN DecodeError
    ELSE ReadText(Utf8Decode(tree[loc].bytes))

\* lines 129-140: the text of a file that is not binary, or a failure
ReadTextFile(tree, loc) ==
    IF ~CanOpen(tree, loc) THEN DecodeError
    ELSE LET utf8 == ReadText(Utf8Decode(tree[loc].bytes))
         IN  IF utf8.ok THEN utf8
             ELSE ReadText(Latin1Decode(tree[loc].bytes))

\* lines 116-143: one round of the loop
ReadOne(tree, file_path, result) ==
    LET full_path == JoinRoot(file_path)
    IN  IF ~Exists(tree, full_path) THEN result
        ELSE IF is_binary_file(tree, full_path)
             THEN Put(result, file_path, BinaryMarker)
        ELSE LET r == ReadTextFile(tree, full_path)
             IN  IF r.ok THEN Put(result, file_path, r.text) ELSE result

\* a plausible slip: the loop ends at the first path that does not exist
RECURSIVE ReadLoop_stops(_, _, _)
ReadLoop_stops(tree, file_paths, result) ==
    IF file_paths = <<>> \/ ~Exists(tree, JoinRoot(Head(file_paths))) THEN result
    ELSE ReadLoop_stops(tree, Tail(file_paths), ReadOne(tree, Head(file_paths), result))

RECURSIVE ReadLoop(_, _, _)
ReadLoop(tree, file_paths, result) ==
    IF file_paths = <<>> THEN result
    ELSE ReadLoop(tree, Tail(file_paths), ReadOne(tree, Head(file_paths), result))

read_file_contents(tree, file_paths) == ReadLoop(tree, file_paths, EmptyDict)

-----------------------------------------------------------------------------
(* Exceptions: a raised exception is the name of its class; "None" says    *)
(* that nothing was raised.                                                *)

NoExc == "None"

\* the classes an exception is an instance of (its class and the bases)
Bases(exc) ==
    IF exc = NoExc THEN {}
    ELSE {exc, "Exception"} \cup
         (IF exc \in {"FileNotFoundError", "PermissionError", "IsADirectoryError",
                      "TimeoutError"}
          THEN {"OSError"} ELSE {}) \cup
         (IF exc = "UnicodeDecodeError" THEN {"ValueError"} ELSE {}) \cup
         (IF exc \in {"pexpect.EOF", "pexpect.TIMEOUT"}
          THEN {"pexpect.ExceptionPexpect"} ELSE {})

\* try: <body that raises exc> except C1: ... except C2: ...  The clauses
\* are pairs <<class, what the handler raises>>, tried in order; a handler
\* that returns or continues raises "None".
RECURSIVE Except(_, _)
Except(exc, clauses) ==
    IF exc = NoExc \/ clauses = <<>> THEN exc
    ELSE IF Head(clauses)[1] \in Bases(exc) THEN Head(clauses)[2]
    ELSE Except(exc, Tail(clauses))

\* the first exception a sequence of steps raises
RECURSIVE FirstRaised(_)
FirstRaised(excs) ==
    IF excs = <<>> THEN NoExc
    ELSE IF Head(excs) # NoExc THEN Head(excs)
    ELSE FirstRaised(Tail(excs))

\* what open(path, ...) raises
OpenError(tree, loc) ==
    IF IsDir(tree, loc) THEN "IsADirectoryError"
    ELSE IF ~IsFile(tree, loc) THEN "FileNotFoundError"
    ELSE IF ~tree[loc].readable THEN "PermissionError"
    ELSE NoExc

\* what os.scandir(dir) raises inside os.walk
ScandirError(dir) == IF dir \in unlistable THEN "PermissionError" ELSE NoExc

\* os.walk(top) with onerror=None: the error of listing a directory is
\* dropped and the directory yields nothing
OsWalkError(dir) == Except(ScandirError(dir), <<<<"OSError", NoExc>>>>)

\* the directories of a tree, the root included
Dirs(tree) ==
    {<<>>} \cup UNION {{SubSeq(p, 1, k) : k \in 1..(Len(p) - 1)} : p \in DOMAIN tree}

\* a plausible slip: only a missing file is expected
ChecksumExcept_missing == <<<<"FileNotFoundError", NoExc>>>>

\* lines 184-185: except Exception: return ""
ChecksumExcept == <<<<"Exception", NoExc>>>>

\* what calculate_checksum lets escape
calculate_checksum_raises(tree, loc) == Except(OpenError(tree, loc), ChecksumExcept)

\* lines 162-163: except Exception: return False
is_binary_file_raises(tree, loc) ==
    Except(OpenError(tree, loc), <<<<"Exception", NoExc>>>>)

\* lines 52-62 for one file: except Exception: continue
SnapshotFileRaises(tree, loc) ==
    Except(calculate_checksum_raises(tree, loc), <<<<"Exception", NoExc>>>>)

\* what snapshot() lets escape: lines 42-64, except PermissionError: pass
snapshot_raises(listed, opened, order) ==
    LET paths  == WalkFiles(listed, <<>>, order)
        walked == {OsWalkError(dir) : dir \in Dirs(listed)} \ {NoExc}
        files  == FirstRaised([i \in 1..Len(paths) |->
                                  SnapshotFileRaises(opened, paths[i])])
        body   == IF walked # {} THEN CHOOSE exc \in walked : TRUE ELSE files
    IN  Except(body, <<<<"PermissionError", NoExc>>>>)

\* d[key]
LookupError(dict, key) == IF Has(dict, key) THEN NoExc ELSE "KeyError"

\* lines 88-99: the lookups of line 92 follow the membership test of line 90
detect_changes_raises(initial, final) ==
    FirstRaised([i \in 1..Len(final) |->
        LET file_path == final[i][1]
        IN  IF ~Has(initial, file_path) THEN NoExc
            ELSE FirstRaised(<<LookupError(initial, file_path),
                               LookupError(final, file_path)>>)])

\* lines 116-143 for one path
ReadOneRaises(tree, file_path) ==
    LET full_path == JoinRoot(file_path)
        binary    == is_binary_file_raises(tree, full_path)
        opened    == OpenError(tree, full_path)
        utf8      == IF opened # NoExc THEN opened
                     ELSE IF ~ReadText(Utf8Decode(tree[full_path].bytes)).ok
                          THEN "UnicodeDecodeError" ELSE NoExc
        \* lines 134-140: the second attempt, except Exception: continue
        latin1    == Except(opened, <<<<"Exception", NoExc>>>>)
        inner     == IF "UnicodeDecodeError" \in Bases(utf8) THEN latin1 ELSE utf8
        body      == IF ~Exists(tree, full_path) THEN NoExc
                     ELSE IF binary # NoExc THEN binary
                     ELSE IF is_binary_file(tree, full_path) THEN NoExc
                     ELSE inner
    IN  Except(body, <<<<"Exception", NoExc>>>>)

read_file_contents_raises(tree, file_paths) ==
    FirstRaised([i \in 1..Len(file_paths) |-> ReadOneRaises(tree, file_paths[i])])

-----------------------------------------------------------------------------
(* Bounds and the inputs of the model                                      *)

\* most files the tree holds at once
MaxFiles == 2

\* most files that vanish between being listed and being opened in one walk
MaxVanish == 1

\* longest list handed to read_file_contents
MaxRequest == 2

\* the orders in which the operating system may list a directory
ScanOrders ==
    { <<NameA, NameB, NameD, ModPyc, DotGit, PyCache, DotVenv, DSStore, NodeModules>>,
      <<NodeModules, DSStore, DotVenv, PyCache, DotGit, ModPyc, NameD, NameB, NameA>> }

Vanishing == {gone \in SUBSET DOMAIN fs : Cardinality(gone) <= MaxVanish}

Without(tree, gone) == [q \in DOMAIN tree \ gone |-> tree[q]]

\* files of the change-detection runs: three places, two contents
DiffLocs == {<<NameA>>, <<NameB>>, <<NameD, NameA>>}

DiffBytes == {<<Run(65, 1)>>, <<Run(66, 1)>>}

\* files of the traversal runs: the directories below the root, ignored and
\* not, one and two levels deep, each holding a plain and a compiled file
WalkRoots ==
    { <<>>, <<NameD>>, <<ModPyc>>,
      <<DotGit>>, <<PyCache>>, <<DotVenv>>, <<DSStore>>, <<NodeModules>>,
      <<NameD, NameD>>, <<NameD, DotGit>>, <<DotGit, NameD>>,
      <<NameD, NodeModules>>, <<NodeModules, NameD>>,
      <<NameD, PyCache>>, <<NameD, DotVenv>>, <<NameD, DSStore>> }

WalkLocs == {Append(root, file) : root \in WalkRoots, file \in {NameA, ModPyc}}

WalkBytes == {<<>>}

\* files of the reading runs: two files of varied content and a directory
ReadBytes ==
    { <<>>,                                     \* empty
      <<Run(65, 1)>>,                           \* "A"
      <<Run(0, 1)>>,                            \* a null byte
      <<Run(65, 8191), Run(0, 1)>>,             \* the null byte is byte 8192
      <<Run(65, 8192), Run(0, 1)>>,             \* the null byte is byte 8193
      <<Run(195, 1), Run(169, 1)>>,             \* e-acute in UTF-8
      <<Run(255, 1)>>,                          \* no UTF-8
      <<Run(65, 1), Run(13, 1), Run(10, 1)>> }  \* "A\r\n"

ReadFiles ==
    ({<<NameA>>, <<NameB>>} \X ReadBytes) \cup {<<<<NameD, NameA>>, <<>>>>}

ReadLocs == {f[1] : f \in ReadFiles}

RequestPaths == {PathStr(<<NameA>>), PathStr(<<NameB>>), PathStr(<<NameD>>)}

Requests == UNION {[1..n -> RequestPaths] : n \in 0..MaxRequest}

-----------------------------------------------------------------------------
(* The state after FileTracker(working_dir) on an empty tree               *)

\* no scalar was returned
NoValue == "no value"

\* FileTracker(working_dir): both states are new empty dicts; the record
\* also holds the result of the tracker's last detect_changes()
FileTracker ==
    [initial_state |-> EmptyDict, final_state |-> EmptyDict,
     created |-> <<>>, modified |-> <<>>]

\* name = <a dict that was just built>: the name shares its object with no
\* other name
Rebound(pairs, name) == {pair \in pairs : name \notin pair}

Init ==
    /\ fs = [q \in {} |-> 0]
    /\ initial_state = EmptyDict
    /\ final_state = EmptyDict
    /\ lastOp = "init"
    /\ snap = EmptyDict
    /\ created = <<>>
    /\ modified = <<>>
    /\ requested = <<>>
    /\ contents = EmptyDict
    /\ failed = {}
    /\ calls = [initial |-> FALSE, final |-> FALSE]
    /\ unlistable = {}
    /\ raised = NoExc
    /\ returned = NoValue
    /\ interactive = TRUE
    /\ process = "None"
    /\ trace = <<>>
    /\ inputs = NoValue
    /\ response = NoValue
    /\ other = FileTracker
    /\ alias = {}

\* no call has returned anything
NoResult ==
    /\ snap' = EmptyDict
    /\ created' = <<>>
    /\ modified' = <<>>
    /\ requested' = <<>>
    /\ contents' = EmptyDict
    /\ failed' = {}
    /\ returned' = NoValue

(* The environment: the external process and the user change the tree      *)

EnvStep ==
    /\ lastOp' = "env"
    /\ NoResult
    /\ raised' = NoExc
    /\ UNCHANGED <<initial_state, final_state, calls, unlistable, other, alias>>
    /\ UNCHANGED svars

\* a regular file is created or overwritten
WriteFile(loc, bytes) ==
    /\ ~IsDir(fs, loc)
    /\ \A k \in 1..(Len(loc) - 1) : ~IsFile(fs, SubSeq(loc, 1, k))
    /\ loc \in DOMAIN fs \/ Cardinality(DOMAIN fs) < MaxFiles
    /\ fs' = [q \in DOMAIN fs \cup {loc} |->
                 IF q = loc
                 THEN [bytes |-> bytes,
                       readable |-> IF loc \in DOMAIN fs THEN fs[loc].readable ELSE TRUE]
                 ELSE fs[q]]
    /\ EnvStep

DeleteFile(loc) ==
    /\ loc \in DOMAIN fs
    /\ fs' = Without(fs, {loc})
    /\ EnvStep

\* the read permission of a file is taken away or given back
Chmod(loc) ==
    /\ loc \in DOMAIN fs
    /\ fs' = [fs EXCEPT ![loc].readable = ~fs[loc].readable]
    /\ EnvStep

\* the permission to list a directory is taken away or given back
ChmodDir(dir) ==
    /\ dir \in Dirs(fs)
    /\ unlistable' = (unlistable \ {dir}) \cup ({dir} \ unlistable)
    /\ lastOp' = "env"
    /\ NoResult
    /\ raised' = NoExc
    /\ UNCHANGED <<fs, initial_state, final_state, calls, other, alias>>
    /\ UNCHANGED svars

(* The operations of FileTracker                                           *)

\* the files the walk reached and could not fingerprint
FailedOpen(listed, opened, order) ==
    {loc \in Elems(WalkFiles(listed, <<>>, order)) : ~CanOpen(opened, loc)}

\* a plausible slip: snapshot() keeps the mapping it returns as the final state
SnapshotCall_cached(order, gone) ==
    /\ lastOp' = "snapshot"
    /\ fs' = Without(fs, gone)
    /\ snap' = snapshot(fs, fs', order)
    /\ final_state' = snap'
    /\ failed' = FailedOpen(fs, fs', order)
    /\ created' = <<>>
    /\ modified' = <<>>
    /\ requested' = <<>>
    /\ contents' = EmptyDict
    /\ UNCHANGED <<initial_state, calls>>
    /\ raised' = snapshot_raises(fs, fs', order)
    /\ returned' = NoValue
    /\ UNCHANGED <<unlistable, other>>
    /\ alias' = Rebound(Rebound(alias, "snapshot"), "final_state")
                 \cup {{"snapshot", "final_state"}}
    /\ UNCHANGED svars

SnapshotCall(order, gone) ==
    /\ lastOp' = "snapshot"
    /\ fs' = Without(fs, gone)
    /\ snap' = snapshot(fs, fs', order)
    /\ failed' = FailedOpen(fs, fs', order)
    /\ created' = <<>>
    /\ modified' = <<>>
    /\ requested' = <<>>
    /\ contents' = EmptyDict
    /\ UNCHANGED <<initial_state, final_state, calls>>
    /\ raised' = snapshot_raises(fs, fs', order)
    /\ returned' = NoValue
    /\ UNCHANGED <<unlistable, other>>
    /\ alias' = Rebound(alias, "snapshot")
    /\ UNCHANGED svars

\* dict.update: the entries of the second dict are put into the first
RECURSIVE DictUpdate(_, _)
DictUpdate(d, e) ==
    IF e = <<>> THEN d
    ELSE DictUpdate(Put(d, Head(e)[1], Head(e)[2]), Tail(e))

\* a plausible slip: the capture is merged into the stored state
take_initial_snapshot_merge(order, gone) ==
    /\ lastOp' = "take_initial_snapshot"
    /\ fs' = Without(fs, gone)
    /\ initial_state' = DictUpdate(initial_state, snapshot(fs, fs', order))
    /\ failed' = FailedOpen(fs, fs', order)
    /\ calls' = [calls EXCEPT !.initial = TRUE]
    /\ snap' = EmptyDict
    /\ created' = <<>>
    /\ modified' = <<>>
    /\ requested' = <<>>
    /\ contents' = EmptyDict
    /\ UNCHANGED final_state
    /\ raised' = snapshot_raises(fs, fs', order)
    /\ returned' = NoValue
    /\ UNCHANGED <<unlistable, other, alias>>
    /\ UNCHANGED svars

take_initial_snapshot(order, gone) ==
    /\ lastOp' = "take_initial_snapshot"
    /\ fs' = Without(fs, gone)
    /\ initial_state' = snapshot(fs, fs', order)
    /\ failed' = FailedOpen(fs, fs', order)
    /\ calls' = [calls EXCEPT !.initial = TRUE]
    /\ snap' = EmptyDict
    /\ created' = <<>>
    /\ modified' = <<>>
    /\ requested' = <<>>
    /\ contents' = EmptyDict
    /\ UNCHANGED final_state
    /\ raised' = snapshot_raises(fs, fs', order)
    /\ returned' = NoValue
    /\ UNCHANGED <<unlistable, other>>
    /\ alias' = Rebound(alias, "initial_state")
    /\ UNCHANGED svars

\* a plausible slip: the capture is stored in both fields
take_final_snapshot_both(order, gone) ==
    /\ lastOp' = "take_final_snapshot"
    /\ fs' = Without(fs, gone)
    /\ final_state' = snapshot(fs, fs', order)
    /\ initial_state' = final_state'
    /\ failed' = FailedOpen(fs, fs', order)
    /\ calls' = [calls EXCEPT !.final = TRUE]
    /\ snap' = EmptyDict
    /\ created' = <<>>
    /\ modified' = <<>>
    /\ requested' = <<>>
    /\ contents' = EmptyDict
    /\ raised' = snapshot_raises(fs, fs', order)
    /\ returned' = NoValue
    /\ UNCHANGED <<unlistable, other>>
    /\ alias' = Rebound(Rebound(alias, "initial_state"), "final_state")
                 \cup {{"initial_state", "final_state"}}
    /\ UNCHANGED svars

take_final_snapshot(order, gone) ==
    /\ lastOp' = "take_final_snapshot"
    /\ fs' = Without(fs, gone)
    /\ final_state' = snapshot(fs, fs', order)
    /\ failed' = FailedOpen(fs, fs', order)
    /\ calls' = [calls EXCEPT !.final = TRUE]
    /\ snap' = EmptyDict
    /\ created' = <<>>
    /\ modified' = <<>>
    /\ requested' = <<>>
    /\ contents' = EmptyDict
    /\ UNCHANGED initial_state
    /\ raised' = snapshot_raises(fs, fs', order)
    /\ returned' = NoValue
    /\ UNCHANGED <<unlistable, other>>
    /\ alias' = Rebound(alias, "final_state")
    /\ UNCHANGED svars

DetectChanges ==
    /\ lastOp' = "detect_changes"
    /\ created' = detect_changes(initial_state, final_state)[1]
    /\ modified' = detect_changes(initial_state, final_state)[2]
    /\ snap' = EmptyDict
    /\ requested' = <<>>
    /\ contents' = EmptyDict
    /\ failed' = {}
    /\ UNCHANGED <<fs, initial_state, final_state, calls>>
    /\ raised' = detect_changes_raises(initial_state, final_state)
    /\ returned' = NoValue
    /\ UNCHANGED <<unlistable, other>>
    /\ UNCHANGED alias
    /\ UNCHANGED svars

ReadFileContents(file_paths) ==
    /\ lastOp' = "read_file_contents"
    /\ requested' = file_paths
    /\ contents' = read_file_contents(fs, file_paths)
    /\ snap' = EmptyDict
    /\ created' = <<>>
    /\ modified' = <<>>
    /\ failed' = {}
    /\ UNCHANGED <<fs, initial_state, final_state, calls>>
    /\ raised' = read_file_contents_raises(fs, file_paths)
    /\ returned' = NoValue
    /\ UNCHANGED <<unlistable, other>>
    /\ UNCHANGED alias
    /\ UNCHANGED svars

\* calculate_checksum called on one path
CalculateChecksumCall(loc) ==
    /\ lastOp' = "calculate_checksum"
    /\ returned' = calculate_checksum(fs, loc)
    /\ raised' = calculate_checksum_raises(fs, loc)
    /\ snap' = EmptyDict
    /\ created' = <<>>
    /\ modified' = <<>>
    /\ requested' = <<>>
    /\ contents' = EmptyDict
    /\ failed' = {}
    /\ UNCHANGED <<fs, initial_state, final_state, calls, unlistable, other, alias>>
    /\ UNCHANGED svars

\* is_binary_file called on one path
IsBinaryFileCall(loc) ==
    /\ lastOp' = "is_binary_file"
    /\ returned' = is_binary_file(fs, loc)
    /\ raised' = is_binary_file_raises(fs, loc)
    /\ snap' = EmptyDict
    /\ created' = <<>>
    /\ modified' = <<>>
    /\ requested' = <<>>
    /\ contents' = EmptyDict
    /\ failed' = {}
    /\ UNCHANGED <<fs, initial_state, final_state, calls, unlistable, other, alias>>
    /\ UNCHANGED svars

-----------------------------------------------------------------------------
(* Change detection: files come and go between the two captures            *)

Next ==
    \/ \E loc \in DiffLocs, bytes \in DiffBytes : WriteFile(loc, bytes)
    \/ \E loc \in DiffLocs : DeleteFile(loc)
    \/ \E order \in ScanOrders, gone \in Vanishing : take_initial_snapshot(order, gone)
    \/ \E order \in ScanOrders, gone \in Vanishing : take_final_snapshot(order, gone)
    \/ DetectChanges

Spec == Init /\ [][Next]_vars

-----------------------------------------------------------------------------
(* Claims about detect_changes, checked under Spec                         *)

NoDuplicates(list) == \A i, j \in 1..Len(list) : list[i] = list[j] => i = j

Changed == Elems(created) \cup Elems(modified)

InBoth == Keys(initial_state) \cap Keys(final_state)

\* C1: detect_changes() returns as created exactly the keys of final_state
\* that initial_state lacks, and as modified exactly the keys of both whose
\* fingerprints differ; a key of both with equal fingerprints is in neither.
C1_DiffOfSnapshots ==
    lastOp = "detect_changes" =>
        /\ Elems(created) = Keys(final_state) \ Keys(initial_state)
        /\ Elems(modified) =
               {k \in InBoth : Get(initial_state, k) # Get(final_state, k)}
        /\ \A k \in InBoth :
               Get(initial_state, k) = Get(final_state, k) => k \notin Changed

\* detect_changes() has reported a created and a modified file together
C1_Witness ==
    /\ lastOp = "detect_changes"
    /\ created # <<>>
    /\ modified # <<>>

\* C2: the two lists detect_changes() returns share no path, and neither
\* holds a path twice.
C2_DisjointNoDuplicates ==
    lastOp = "detect_changes" =>
        /\ Elems(created) \cap Elems(modified) = {}
        /\ NoDuplicates(created)
        /\ NoDuplicates(modified)

\* detect_changes() has reported two paths after captures of a changed tree
C2_Witness ==
    /\ lastOp = "detect_changes"
    /\ calls.initial /\ calls.final
    /\ Len(created) + Len(modified) >= 2

\* C3: a path of initial_state that final_state lacks (a file deleted
\* between the captures) is in neither list detect_changes() returns.
C3_DeletedNotReported ==
    lastOp = "detect_changes" =>
        \A k \in Keys(initial_state) \ Keys(final_state) : k \notin Changed

\* detect_changes() has run with a deleted file and has reported another one
C3_Witness ==
    /\ lastOp = "detect_changes"
    /\ Keys(initial_state) \ Keys(final_state) # {}
    /\ Changed # {}

\* C4: on a tracker whose take_initial_snapshot() never ran, after
\* take_final_snapshot() detect_changes() returns every path of final_state
\* as created and nothing as modified.
C4_FinalBeforeInitial ==
    (lastOp = "detect_changes" /\ ~calls.initial /\ calls.final) =>
        /\ Elems(created) = Keys(final_state)
        /\ Len(created) = Len(final_state)
        /\ modified = <<>>

\* such a run over a tree that holds two files
C4_Witness ==
    /\ lastOp = "detect_changes"
    /\ ~calls.initial /\ calls.final
    /\ Len(final_state) = 2
    /\ Len(created) = 2

-----------------------------------------------------------------------------
(* Traversal: snapshot() over trees with ignored directories, compiled     *)
(* files, unreadable files and files that vanish during the walk           *)

NextWalk ==
    \/ \E loc \in WalkLocs, bytes \in WalkBytes : WriteFile(loc, bytes)
    \/ \E loc \in WalkLocs : DeleteFile(loc)
    \/ \E loc \in WalkLocs : Chmod(loc)
    \/ \E order \in ScanOrders, gone \in Vanishing : SnapshotCall(order, gone)

SpecWalk == Init /\ [][NextWalk]_vars

IgnoredDirNames == {DotGit, PyCache, DotVenv, DSStore, NodeModules}

\* some directory on the way from the root to the file has an ignored name
UnderIgnoredDir(loc) == \E i \in 1..(Len(loc) - 1) : loc[i] \in IgnoredDirNames

Compiled(loc) == EndsWith(loc[Len(loc)], <<".", "p", "y", "c">>)

\* the readable files the traversal is to record
Recorded(tree) ==
    {loc \in DOMAIN tree :
        tree[loc].readable /\ ~UnderIgnoredDir(loc) /\ ~Compiled(loc)}

\* C5: the keys of the mapping snapshot() returns are exactly the
\* root-relative paths of the readable files that lie under no directory
\* named .git, __pycache__, .venv, .DS_Store or node_modules and whose name
\* does not end in .pyc; an empty tree gives the empty mapping.
C5_SnapshotKeys ==
    lastOp = "snapshot" => Keys(snap) = {PathStr(loc) : loc \in Recorded(fs)}

\* snapshot() has recorded a file two directories deep and left out a file
\* of the tree
C5_Witness ==
    /\ lastOp = "snapshot"
    /\ \E loc \in DOMAIN fs : Len(loc) = 3 /\ PathStr(loc) \in Keys(snap)
    /\ \E loc \in DOMAIN fs : fs[loc].readable /\ PathStr(loc) \notin Keys(snap)

\* C6: a file with an ignored directory name anywhere on its path below the
\* root is never a key of a snapshot, whatever its own name and the names of
\* the other directories on the path.
C6_IgnoredSubtreesAbsent ==
    \A loc \in WalkLocs : UnderIgnoredDir(loc) => PathStr(loc) \notin Keys(snap)

\* snapshot() has run over a tree with a readable plain file under an
\* ignored directory that lies inside an ordinary directory
C6_Witness ==
    /\ lastOp = "snapshot"
    /\ \E loc \in DOMAIN fs :
           /\ Len(loc) = 3 /\ loc[1] = NameD /\ loc[2] \in IgnoredDirNames
           /\ loc[3] = NameA /\ fs[loc].readable

\* C7: a file whose fingerprinting failed during snapshot() is not a key of
\* the result, every readable file that is not ignored is one, and no key is
\* mapped to the empty fingerprint.
C7_FailedFilesSkipped ==
    lastOp = "snapshot" =>
        /\ \A loc \in failed : PathStr(loc) \notin Keys(snap)
        /\ \A loc \in Recorded(fs) : PathStr(loc) \in Keys(snap)
        /\ \A i \in 1..Len(snap) : snap[i][2] # EmptyStr

\* snapshot() has skipped a file that could not be opened and recorded
\* another one
C7_Witness ==
    /\ lastOp = "snapshot"
    /\ failed # {}
    /\ snap # EmptyDict

-----------------------------------------------------------------------------
(* Reading: read_file_contents() over missing, unreadable, binary and text *)
(* files and a directory                                                   *)

NextRead ==
    \/ \E f \in ReadFiles : WriteFile(f[1], f[2])
    \/ \E loc \in ReadLocs : DeleteFile(loc)
    \/ \E loc \in ReadLocs : Chmod(loc)
    \/ \E file_paths \in Requests : ReadFileContents(file_paths)

SpecRead == Init /\ [][NextRead]_vars

\* the files of the tree by their paths
FilePaths == {PathStr(loc) : loc \in DOMAIN fs}

FileAt(k) == fs[CHOOSE loc \in DOMAIN fs : PathStr(loc) = k]

\* a null byte among the first 8192 bytes
NullInPrefix(c) == \E i \in 1..Len(c) : c[i].b = 0 /\ Size(SubSeq(c, 1, i - 1)) < 8192

\* C8: the keys of the mapping read_file_contents() returns are requested
\* paths; a requested path with no file under the root is not a key, and
\* the readable files among the other requested paths are keys.
C8_MissingOmitted ==
    lastOp = "read_file_contents" =>
        /\ Keys(contents) \subseteq Elems(requested)
        /\ \A k \in Elems(requested) \ FilePaths : ~Has(contents, k)
        /\ \A k \in Elems(requested) \cap FilePaths :
               FileAt(k).readable => Has(contents, k)

\* read_file_contents() was given a missing path first and an existing file
\* after it, and returned the file
C8_Witness ==
    /\ lastOp = "read_file_contents"
    /\ Len(requested) = 2
    /\ requested[1] \notin FilePaths
    /\ ~Exists(fs, JoinRoot(requested[1]))
    /\ requested[2] \in FilePaths
    /\ Has(contents, requested[2])

\* C9: a path whose file has a null byte among its first 8192 bytes is
\* mapped, when it is a key at all, to "[Binary file, not displayed]".
C9_BinaryPlaceholder ==
    lastOp = "read_file_contents" =>
        \A k \in Keys(contents) \cap FilePaths :
            NullInPrefix(FileAt(k).bytes) => Get(contents, k) = BinaryMarker

\* read_file_contents() has returned the placeholder for a file whose only
\* null byte is byte 8192
C9_Witness ==
    /\ lastOp = "read_file_contents"
    /\ \E k \in Keys(contents) \cap FilePaths :
           /\ FileAt(k).bytes = <<Run(65, 8191), Run(0, 1)>>
           /\ Get(contents, k) = BinaryMarker

\* the requested files that exist, can be read and are not binary
TextRequests ==
    {k \in Elems(requested) \cap FilePaths :
        FileAt(k).readable /\ ~NullInPrefix(FileAt(k).bytes)}

Decoded(c) == IF Utf8Decode(c).ok THEN Utf8Decode(c).text ELSE Latin1Decode(c).text

\* C10 as stated: every requested readable file that is not binary is mapped
\* to its UTF-8 decoding, or to its Latin-1 decoding when its bytes are no
\* valid UTF-8.
C10_AsStated ==
    lastOp = "read_file_contents" =>
        \A k \in TextRequests :
            Has(contents, k) /\ Get(contents, k) = Decoded(FileAt(k).bytes)

\* C10: every requested readable file that is not binary is mapped to its
\* UTF-8 decoding, or to its Latin-1 decoding when its bytes are no valid
\* UTF-8, with every "\r\n" and every other "\r" of the text replaced by
\* "\n" (the file is opened in text mode).
C10_DecodedText ==
    lastOp = "read_file_contents" =>
        \A k \in TextRequests :
            /\ Has(contents, k)
            /\ Get(contents, k) = UniversalNewlines(Decoded(FileAt(k).bytes))

\* read_file_contents() has returned a file through the Latin-1 fallback and
\* a file with a carriage return
C10_Witness ==
    /\ lastOp = "read_file_contents"
    /\ \E k \in TextRequests :
           ~Utf8Decode(FileAt(k).bytes).ok /\ Has(contents, k)
    /\ \E k \in TextRequests :
           /\ \E i \in 1..Len(FileAt(k).bytes) : FileAt(k).bytes[i].b = 13
           /\ Has(contents, k)

-----------------------------------------------------------------------------
(* Failures: files and directories lose their permissions, files vanish,   *)
(* and every operation of the tracker is called on what is left            *)

FaultLocs == {<<NameA>>, <<NameD, NameA>>}

\* one byte that is no UTF-8
FaultBytes == {<<Run(255, 1)>>}

\* paths handed to calculate_checksum and is_binary_file: files, a
\* directory and a name that is never used
ProbeLocs == FaultLocs \cup {<<NameD>>, <<NameB>>}

NextFault ==
    \/ \E loc \in FaultLocs, bytes \in FaultBytes : WriteFile(loc, bytes)
    \/ \E loc \in FaultLocs : DeleteFile(loc)
    \/ \E loc \in FaultLocs : Chmod(loc)
    \/ \E dir \in {<<>>, <<NameD>>} : ChmodDir(dir)
    \/ \E order \in ScanOrders, gone \in Vanishing : SnapshotCall(order, gone)
    \/ \E order \in ScanOrders, gone \in Vanishing : take_initial_snapshot(order, gone)
    \/ \E order \in ScanOrders, gone \in Vanishing : take_final_snapshot(order, gone)
    \/ DetectChanges
    \/ \E file_paths \in Requests : ReadFileContents(file_paths)
    \/ \E loc \in ProbeLocs : CalculateChecksumCall(loc)
    \/ \E loc \in ProbeLocs : IsBinaryFileCall(loc)

SpecFault == Init /\ [][NextFault]_vars

TrackerOps ==
    {"snapshot", "take_initial_snapshot", "take_final_snapshot", "detect_changes",
     "read_file_contents", "calculate_checksum", "is_binary_file"}

\* C11: no operation of the tracker lets an exception escape, whether files
\* are missing, unreadable or vanish during the walk, or the root cannot be
\* listed; a capture of a root that cannot be listed is the empty dict.
C11_NoTrackerOperationRaises ==
    /\ lastOp \in TrackerOps => raised = NoExc
    /\ (lastOp = "snapshot" /\ <<>> \in unlistable) => snap = EmptyDict

\* snapshot() has returned from a root it could not list although the tree
\* holds a file
C11_Witness ==
    /\ lastOp = "snapshot"
    /\ <<>> \in unlistable
    /\ DOMAIN fs # {}
    /\ raised = NoExc
    /\ snap = EmptyDict

-----------------------------------------------------------------------------
(* kimi_mcp.session.KimiSession.  A session is the record self of its      *)
(* fields interactive and process; an operation returns the new process    *)
(* field, the exception it lets escape, its return value and the calls it  *)
(* made on the child process.                                              *)

Outcome(proc, exc, value, calls_made) ==
    [process |-> proc, raised |-> exc, returned |-> value, trace |-> calls_made]

\* KimiSession(working_dir, interactive=...): lines 30-50
KimiSession(mode) == [interactive |-> mode, process |-> "None"]

\* a plausible slip: the child is started whatever the mode
spawn_always(self, which, child) ==
    IF ~which THEN Outcome(self.process, "RuntimeError", NoValue, <<>>)
    ELSE Outcome(IF child = "error" THEN self.process
                 ELSE IF child = "eof" THEN "dead" ELSE "alive",
                 Except(CASE child = "error" -> "pexpect.ExceptionPexpect"
                          [] child = "eof" -> "pexpect.EOF"
                          [] OTHER -> NoExc,
                        <<<<"Exception", "RuntimeError">>>>),
                 NoValue,
                 IF child = "error" THEN <<"pexpect.spawn">>
                 ELSE <<"pexpect.spawn", "expect">>)

\* a plausible slip: the test of line 60 is left out
spawn_unchecked(self, which, child) ==
    IF ~self.interactive THEN Outcome(self.process, NoExc, NoValue, <<>>)
    ELSE Outcome(IF child = "error" THEN self.process
                 ELSE IF child = "eof" THEN "dead" ELSE "alive",
                 Except(CASE child = "error" -> "pexpect.ExceptionPexpect"
                          [] child = "eof" -> "pexpect.EOF"
                          [] OTHER -> NoExc,
                        <<<<"Exception", "RuntimeError">>>>),
                 NoValue,
                 IF child = "error" THEN <<"pexpect.spawn">>
                 ELSE <<"pexpect.spawn", "expect">>)

\* spawn(): which is whether shutil.which("kimi") finds the executable;
\* child is what happens to the new process: pexpect.spawn raises
\* ("error"), the expect of line 75 sees ">" ("prompt"), returns the index
\* of its TIMEOUT pattern ("timeout"), or raises EOF ("eof")
spawn(self, which, child) ==
    IF ~which THEN Outcome(self.process, "RuntimeError", NoValue, <<>>)
    ELSE IF ~self.interactive THEN Outcome(self.process, NoExc, NoValue, <<>>)
    ELSE Outcome(IF child = "error" THEN self.process
                 ELSE IF child = "eof" THEN "dead" ELSE "alive",
                 Except(CASE child = "error" -> "pexpect.ExceptionPexpect"
                          [] child = "eof" -> "pexpect.EOF"
                          [] OTHER -> NoExc,
                        <<<<"Exception", "RuntimeError">>>>),
                 NoValue,
                 IF child = "error" THEN <<"pexpect.spawn">>
                 ELSE <<"pexpect.spawn", "expect">>)

\* a plausible slip: a failure is recognised by its message only
RunFailed_stderr(run) == run.returncode # 0 /\ run.stderr # <<>>

\* line 160: result.returncode != 0
RunFailed(run) == run.returncode # 0

\* lines 166-172
OneshotExcept ==
    << <<"subprocess.TimeoutExpired", "TimeoutError">>,
       <<"FileNotFoundError", "RuntimeError">>,
       <<"Exception", "RuntimeError">> >>

\* _send_oneshot: run is what subprocess.run does, an exception it raises
\* or the completed process with returncode, stdout and stderr
_send_oneshot(self, run) ==
    LET body == IF run.kind # "completed" THEN run.kind
                ELSE IF RunFailed(run) THEN "RuntimeError"
                ELSE NoExc
        exc  == Except(body, OneshotExcept)
    IN  Outcome(self.process, exc,
                IF exc = NoExc THEN run.stdout ELSE NoValue,
                <<"subprocess.run">>)

\* a plausible slip: a process that has died still counts
SessionActive_spawned(self) == self.process # "None"

\* line 189: self.process and self.process.isalive()
SessionActive(self) == self.process # "None" /\ self.process = "alive"

\* lines 219-224
InteractiveExcept ==
    << <<"pexpect.EOF", "RuntimeError">>,
       <<"pexpect.TIMEOUT", "TimeoutError">>,
       <<"Exception", "RuntimeError">> >>

\* _send_interactive: reply is what the expect of line 200 does: it returns
\* the index of the pattern that matched (index 2 is the TIMEOUT pattern) or
\* raises; reply.before is process.before.  The raise of line 214 is inside
\* the try of line 194.
_send_interactive(self, reply) ==
    IF ~SessionActive(self)
    THEN Outcome(self.process, "RuntimeError", NoValue, <<>>)
    ELSE LET body == CASE reply.kind = "index2" -> "TimeoutError"
                       [] reply.kind \in {"pexpect.TIMEOUT", "pexpect.EOF", "OSError"}
                              -> reply.kind
                       [] OTHER -> NoExc
             exc  == Except(body, InteractiveExcept)
         IN  Outcome(IF reply.kind = "pexpect.EOF" THEN "dead" ELSE self.process,
                     exc,
                     IF exc = NoExc THEN reply.before ELSE NoValue,
                     <<"sendline(prompt)", "expect">>)

\* send_prompt: lines 241-244
send_prompt(self, answer) ==
    IF self.interactive THEN _send_interactive(self, answer)
    ELSE _send_oneshot(self, answer)

\* a plausible slip: the child is asked to leave and never forced
terminate_polite(self, exit) ==
    IF self.interactive /\ SessionActive(self)
    THEN Outcome(IF exit = "eof" THEN "dead" ELSE "alive", NoExc, NoValue,
                 IF exit = "error" THEN <<"sendline(exit)">>
                 ELSE <<"sendline(exit)", "expect(EOF)">>)
    ELSE Outcome(self.process, NoExc, NoValue, <<>>)

\* terminate(): exit is how the graceful exit goes: the child reaches
\* end-of-file ("eof"), does not within 5 seconds ("timeout"), or sendline
\* fails ("error"); terminate(force=True) ends the child
terminate(self, exit) ==
    IF self.interactive /\ SessionActive(self)
    THEN Outcome("dead", NoExc, NoValue,
                 CASE exit = "eof" -> <<"sendline(exit)", "expect(EOF)">>
                   [] exit = "timeout" ->
                          <<"sendline(exit)", "expect(EOF)", "terminate(force=True)">>
                   [] OTHER -> <<"sendline(exit)", "terminate(force=True)">>)
    ELSE Outcome(self.process, NoExc, NoValue, <<>>)

\* with session: <block>.  __enter__ runs spawn(); the block sends a prompt
\* ("send_prompt"), raises on its own ("raise") or does neither ("pass");
\* __exit__ runs terminate() and returns None, so what the block raised is
\* raised again after it.
WithSession(self, env) ==
    LET entered == spawn(self, env.which, env.child)
        inside  == [self EXCEPT !.process = entered.process]
        block   == CASE env.block = "send_prompt" -> send_prompt(inside, env.answer)
                     [] env.block = "raise" ->
                            Outcome(inside.process, "ValueError", NoValue, <<>>)
                     [] OTHER -> Outcome(inside.process, NoExc, NoValue, <<>>)
        after   == [self EXCEPT !.process = block.process]
        left    == terminate(after, env.exit)
    IN  IF entered.raised # NoExc
        THEN Outcome(entered.process, entered.raised, NoValue,
                     <<"spawn">> \o entered.trace)
        ELSE Outcome(left.process,
                     IF left.raised # NoExc THEN left.raised ELSE block.raised,
                     block.returned,
                     <<"spawn">> \o entered.trace \o <<"block">> \o block.trace
                         \o <<"terminate">> \o left.trace)

-----------------------------------------------------------------------------
(* The session on its own: any sequence of its operations, with every      *)
(* answer the child process and the operating system can give              *)

\* texts the child prints
Outs == {<<>>, <<"o", "k">>}

Children == {"prompt", "timeout", "eof", "error"}

\* answers of the expect of line 200
Replies ==
    [kind : {"index0", "index1", "index2", "pexpect.TIMEOUT", "pexpect.EOF", "OSError"},
     before : Outs]

\* answers of subprocess.run
Runs ==
    [kind : {"completed"}, returncode : {0, 1, 0 - 9}, stdout : Outs, stderr : Outs]
        \cup [kind : {"subprocess.TimeoutExpired", "FileNotFoundError", "OSError"},
              returncode : {0}, stdout : {<<>>}, stderr : {<<>>}]

Answers(mode) == IF mode THEN Replies ELSE Runs

Exits == {"eof", "timeout", "error"}

Blocks == {"pass", "send_prompt", "raise"}

Self == [interactive |-> interactive, process |-> process]

\* a session operation has run on the session of the state
SessionStep(op, out, env) ==
    /\ lastOp' = op
    /\ process' = out.process
    /\ raised' = out.raised
    /\ returned' = out.returned
    /\ trace' = out.trace
    /\ inputs' = env
    /\ response' = NoValue
    /\ UNCHANGED tvars

NewSession(mode) ==
    /\ interactive' = mode
    /\ SessionStep("KimiSession", Outcome(KimiSession(mode).process, NoExc, NoValue, <<>>),
                   NoValue)

Spawn(which, child) ==
    /\ SessionStep("spawn", spawn(Self, which, child),
                   [which |-> which, child |-> child, process |-> process])
    /\ UNCHANGED interactive

SendPrompt(answer) ==
    /\ SessionStep("send_prompt", send_prompt(Self, answer),
                   [answer |-> answer, process |-> process])
    /\ UNCHANGED interactive

Terminate(exit) ==
    /\ SessionStep("terminate", terminate(Self, exit),
                   [exit |-> exit, process |-> process])
    /\ UNCHANGED interactive

\* the child process ends on its own
ProcessDies ==
    /\ process = "alive"
    /\ SessionStep("env", Outcome("dead", NoExc, NoValue, <<>>), NoValue)
    /\ UNCHANGED interactive

\* with KimiSession(working_dir, interactive=mode) as session: <block>
With(mode, env) ==
    /\ interactive' = mode
    /\ SessionStep("with", WithSession(KimiSession(mode), env), env)

\* the answer matters only to a block that sends a prompt
WithEnvs(mode) ==
    {env \in [which : BOOLEAN, child : Children, block : Blocks,
              answer : Answers(mode), exit : Exits] :
        env.block # "send_prompt" =>
            env.answer = (IF mode THEN [kind |-> "index0", before |-> <<>>]
                          ELSE [kind |-> "completed", returncode |-> 0,
                                stdout |-> <<>>, stderr |-> <<>>])}

NextSession ==
    \/ \E mode \in BOOLEAN : NewSession(mode)
    \/ \E which \in BOOLEAN, child \in Children : Spawn(which, child)
    \/ \E answer \in Answers(interactive) : SendPrompt(answer)
    \/ \E exit \in Exits : Terminate(exit)
    \/ ProcessDies
    \/ \E mode \in BOOLEAN : \E env \in WithEnvs(mode) : With(mode, env)

SpecSession == Init /\ [][NextSession]_vars

\* the answers that say the child did not finish within the timeout
TimedOut == {"subprocess.TimeoutExpired", "pexpect.TIMEOUT", "index2"}

\* C13: when the child does not finish within the timeout, send_prompt()
\* raises TimeoutError: in one-shot mode when subprocess.run times out, in
\* interactive mode when expect raises TIMEOUT and when expect returns the
\* index of its TIMEOUT pattern.
C13_TimeoutRaisesTimeoutError ==
    (/\ lastOp = "send_prompt"
     /\ inputs.answer.kind \in TimedOut
     /\ interactive => inputs.process = "alive")
        => raised = "TimeoutError"

\* C15: in interactive mode send_prompt() on a session that is not active
\* (never spawned, terminated, or whose child has died) raises RuntimeError
\* and sends nothing; whenever something was sent the child was alive.
C15_InactiveSessionSendsNothing ==
    (lastOp = "send_prompt" /\ interactive) =>
        /\ inputs.process # "alive" => (raised = "RuntimeError" /\ trace = <<>>)
        /\ trace # <<>> => inputs.process = "alive"

\* send_prompt() was refused on a session whose child has died
C15_Witness ==
    /\ lastOp = "send_prompt"
    /\ interactive
    /\ inputs.process = "dead"
    /\ raised = "RuntimeError"
    /\ trace = <<>>

\* spawn() succeeded inside the with statement of the state
SpawnSucceeded ==
    inputs.which /\ (interactive => inputs.child \in {"prompt", "timeout"})

\* the child was alive when the block was left
AliveAtExit ==
    /\ interactive
    /\ ~(inputs.block = "send_prompt" /\ inputs.answer.kind = "pexpect.EOF")

\* C16: when spawn() succeeded in a with statement, terminate() runs after
\* the block however the block ends, and what the block raised is raised
\* after it; with a live interactive child it sends "exit" and forces the
\* child to end when end-of-file does not follow or the exit fails; no live
\* child is left.
C16_TerminateOnEveryExit ==
    (lastOp = "with" /\ SpawnSucceeded) =>
        /\ \E i, j \in 1..Len(trace) :
               i < j /\ trace[i] = "block" /\ trace[j] = "terminate"
        /\ process # "alive"
        /\ AliveAtExit =>
               /\ "sendline(exit)" \in Elems(trace)
               /\ inputs.exit # "eof" => "terminate(force=True)" \in Elems(trace)
        /\ inputs.block = "raise" => raised = "ValueError"

\* a block left by a timeout of send_prompt(), whose child then ignored
\* "exit" and was forced to end
C16_Witness ==
    /\ lastOp = "with"
    /\ interactive
    /\ SpawnSucceeded
    /\ inputs.block = "send_prompt"
    /\ raised = "TimeoutError"
    /\ inputs.exit = "timeout"
    /\ "terminate(force=True)" \in Elems(trace)
    /\ process = "dead"

\* C17: when kimi is not on the path, spawn() raises RuntimeError in either
\* mode, starts no process (process stays None on a new session), and the
\* block of a with statement is not entered.
C17_SpawnWithoutKimi ==
    (lastOp \in {"spawn", "with"} /\ ~inputs.which) =>
        /\ raised = "RuntimeError"
        /\ "pexpect.spawn" \notin Elems(trace)
        /\ lastOp = "spawn" => process = inputs.process
        /\ lastOp = "with" => (process = "None" /\ "block" \notin Elems(trace))

\* an interactive with statement has failed at spawn() for want of kimi
C17_Witness ==
    /\ lastOp = "with"
    /\ interactive
    /\ ~inputs.which
    /\ raised = "RuntimeError"
    /\ process = "None"

\* C18: in one-shot mode send_prompt() returns the standard output when
\* the process exits with code 0, raises RuntimeError for every other exit
\* code whatever the standard error, and returns a value in no other case.
C18_OneshotExitCode ==
    (lastOp = "send_prompt" /\ ~interactive) =>
        /\ (inputs.answer.kind = "completed" /\ inputs.answer.returncode = 0)
               => (raised = NoExc /\ returned = inputs.answer.stdout)
        /\ (inputs.answer.kind = "completed" /\ inputs.answer.returncode # 0)
               => (raised = "RuntimeError" /\ returned = NoValue)
        /\ returned # NoValue
               => (inputs.answer.kind = "completed" /\ inputs.answer.returncode = 0)

\* a run that printed output, failed without a word on standard error and
\* was answered with RuntimeError
C18_Witness ==
    /\ lastOp = "send_prompt"
    /\ ~interactive
    /\ inputs.answer.kind = "completed"
    /\ inputs.answer.returncode # 0
    /\ inputs.answer.stderr = <<>>
    /\ inputs.answer.stdout # <<>>
    /\ raised = "RuntimeError"

-----------------------------------------------------------------------------
(* kimi_mcp.server: the five tool handlers.  A handler is one step: it     *)
(* runs from os.getcwd() to its return statement, the external process     *)
(* changing the tree while the prompt is served.                           *)

ToolNames ==
    {"kimi_code_task", "kimi_analyze_code", "kimi_prompt", "kimi_refactor", "kimi_debug"}

\* a plausible slip: kimi_debug runs one-shot like kimi_refactor
ToolInteractive_debug(tool) == tool \in {"kimi_analyze_code", "kimi_prompt"}

\* the interactive= argument of lines 64, 136, 210, 294 and 387
ToolInteractive(tool) == tool \in {"kimi_analyze_code", "kimi_prompt", "kimi_debug"}

\* the handlers that build a FileTracker (lines 55, 198, 287, 378)
Tracks(tool) == tool # "kimi_analyze_code"

\* a plausible slip: every handler with a tracker reads the changed files
ReadsChanged_tracked(tool) == tool # "kimi_analyze_code"

\* the handlers that call read_file_contents (lines 71, 217)
ReadsChanged(tool) == tool \in {"kimi_code_task", "kimi_prompt"}

\* Python's None in a result dict
PyNone == [py |-> "None"]

\* utils.format_error(error_type, message): no handler passes details, and
\* the suggestion of line 93 is a fixed text
format_error(error_type, message, suggestion) ==
    IF suggestion
    THEN [type |-> error_type, message |-> message, suggestion |-> "suggestion"]
    ELSE [type |-> error_type, message |-> message]

\* a plausible slip: the failure dict holds None where the contents go
FailureDict_none(tool, error) ==
    CASE tool \in {"kimi_code_task", "kimi_prompt"} ->
             [output |-> <<>>, files_created |-> <<>>, files_modified |-> <<>>,
              file_contents |-> PyNone, success |-> FALSE, error |-> error]
      [] tool = "kimi_analyze_code" ->
             [analysis |-> <<>>, suggestions |-> <<>>, success |-> FALSE, error |-> error]
      [] tool = "kimi_refactor" ->
             [original_content |-> <<>>, refactored_content |-> <<>>,
              explanation |-> <<>>, files_modified |-> <<>>,
              success |-> FALSE, error |-> error]
      [] OTHER ->
             [diagnosis |-> <<>>, solution |-> <<>>, code_changes |-> <<>>,
              files_modified |-> <<>>, success |-> FALSE, error |-> error]

\* the dict a handler returns from an except clause
FailureDict(tool, error) ==
    CASE tool \in {"kimi_code_task", "kimi_prompt"} ->
             [output |-> <<>>, files_created |-> <<>>, files_modified |-> <<>>,
              file_contents |-> EmptyDict, success |-> FALSE, error |-> error]
      [] tool = "kimi_analyze_code" ->
             [analysis |-> <<>>, suggestions |-> <<>>, success |-> FALSE, error |-> error]
      [] tool = "kimi_refactor" ->
             [original_content |-> <<>>, refactored_content |-> <<>>,
              explanation |-> <<>>, files_modified |-> <<>>,
              success |-> FALSE, error |-> error]
      [] OTHER ->
             [diagnosis |-> <<>>, solution |-> <<>>, code_changes |-> <<>>,
              files_modified |-> <<>>, success |-> FALSE, error |-> error]

\* the dict a handler returns at the end of its try block.  The outputs of
\* the model hold none of the words the filters of lines 140-143 and
\* 402-406 look for, so no line is a suggestion and no line opens a solution.
SuccessDict(tool, output, diff, file_contents, original, refactored) ==
    CASE tool \in {"kimi_code_task", "kimi_prompt"} ->
             [output |-> output, files_created |-> diff[1], files_modified |-> diff[2],
              file_contents |-> file_contents, success |-> TRUE, error |-> PyNone]
      [] tool = "kimi_analyze_code" ->
             [analysis |-> output, suggestions |-> <<>>, success |-> TRUE, error |-> PyNone]
      [] tool = "kimi_refactor" ->
             [original_content |-> original, refactored_content |-> refactored,
              explanation |-> output, files_modified |-> diff[2],
              success |-> TRUE, error |-> PyNone]
      [] OTHER ->
             [diagnosis |-> output, solution |-> <<>>, code_changes |-> output,
              files_modified |-> diff[2], success |-> TRUE, error |-> PyNone]

\* a plausible slip: the general clause comes first
HandlerExcept_general(tool) ==
    << <<"Exception", "ExecutionError">>, <<"TimeoutError", "TimeoutError">> >>

\* a plausible slip: kimi_refactor has the clauses of the other handlers
HandlerExcept_plain(tool) ==
    << <<"TimeoutError", "TimeoutError">>, <<"Exception", "ExecutionError">> >>

\* the except clauses of a handler, each with the error type it reports:
\* lines 84-104, 154-169, 230-249, 318-347, 419-438
HandlerExcept(tool) ==
    (IF tool = "kimi_refactor" THEN << <<"FileNotFoundError", "FileNotFoundError">> >>
     ELSE <<>>)
        \o << <<"TimeoutError", "TimeoutError">>, <<"Exception", "ExecutionError">> >>

\* open(full_path, "r", encoding="utf-8").read() of lines 281-282 and 304-305
ReadStrict(tree, loc) ==
    IF OpenError(tree, loc) # NoExc
    THEN [raised |-> OpenError(tree, loc), text |-> <<>>]
    ELSE LET utf8 == ReadText(Utf8Decode(tree[loc].bytes))
         IN  IF utf8.ok THEN [raised |-> NoExc, text |-> utf8.text]
             ELSE [raised |-> "UnicodeDecodeError", text |-> <<>>]

\* one thing the external process does to the tree
Effect(tree, effect) ==
    CASE effect.kind = "write" ->
             [q \in DOMAIN tree \cup {effect.loc} |->
                 IF q = effect.loc
                 THEN [bytes |-> effect.bytes,
                       readable |-> IF q \in DOMAIN tree THEN tree[q].readable ELSE TRUE]
                 ELSE tree[q]]
      [] effect.kind = "delete" -> Without(tree, {effect.loc})
      [] OTHER -> tree

\* what the external process does to the tree while it serves the prompt:
\* a sequence of writes and deletions
RECURSIVE Effected(_, _)
Effected(tree, effects) ==
    IF effects = <<>> THEN tree
    ELSE Effected(Effect(tree, Head(effects)), Tail(effects))

\* The return of a handler run.  original and refactored are the two reads
\* of kimi_refactor, session the with statement, after the tree the external
\* process left, initial and final the two captures, diff the result of
\* detect_changes, body the exception that ended the try block.
ToolReturn(tool, tree, env, original, session, after, initial, final, diff, refactored, body) ==
    LET refactor  == tool = "kimi_refactor"
        full_path == JoinRoot(env.file_path)
        begun     == original.raised = NoExc
        ended     == begun /\ session.raised = NoExc
        all_changed == diff[1] \o diff[2]
        error_type == Except(body, HandlerExcept(tool))
        handled   == \E i \in 1..Len(HandlerExcept(tool)) :
                         HandlerExcept(tool)[i][1] \in Bases(body)
        steps     ==
            (IF refactor /\ Exists(tree, full_path) THEN <<"open(file_path)">> ELSE <<>>)
            \o (IF begun /\ Tracks(tool)
                THEN <<"FileTracker", "take_initial_snapshot">> ELSE <<>>)
            \o (IF begun
                THEN <<IF ToolInteractive(tool) THEN "KimiSession(interactive=True)"
                       ELSE "KimiSession(interactive=False)">> \o session.trace
                ELSE <<>>)
            \o (IF ended /\ Tracks(tool)
                THEN <<"take_final_snapshot", "detect_changes">> ELSE <<>>)
            \o (IF ended /\ ReadsChanged(tool) THEN <<"read_file_contents">> ELSE <<>>)
            \o (IF ended /\ refactor /\ Exists(after, full_path)
                THEN <<"open(file_path)">> ELSE <<>>)
    IN  [response |->
             IF body = NoExc
             THEN SuccessDict(tool, session.returned, diff,
                              read_file_contents(after, all_changed),
                              original.text, refactored.text)
             ELSE IF handled
             THEN FailureDict(tool,
                      format_error(error_type, body,
                                   tool = "kimi_code_task" /\ error_type = "TimeoutError"))
             ELSE NoValue,
         raised |-> IF handled THEN NoExc ELSE body,
         trace |-> steps,
         tree |-> IF begun THEN after ELSE tree,
         process |-> IF begun THEN session.process ELSE "None",
         tracker |-> begun /\ Tracks(tool),
         initial_state |-> initial,
         final_state |-> IF ended THEN final ELSE EmptyDict,
         final_taken |-> ended,
         created |-> IF ended THEN diff[1] ELSE <<>>,
         modified |-> IF ended THEN diff[2] ELSE <<>>,
         requested |-> IF ended /\ ReadsChanged(tool) THEN all_changed ELSE <<>>,
         contents |-> IF ended /\ ReadsChanged(tool)
                      THEN read_file_contents(after, all_changed) ELSE EmptyDict]

\* the steps after the with statement: the final capture, the diff and the
\* second read of kimi_refactor (lines 302-305)
ToolAfterSession(tool, tree, env, original, session, after, initial, final) ==
    LET refactored == IF tool = "kimi_refactor" /\ Exists(after, JoinRoot(env.file_path))
                      THEN ReadStrict(after, JoinRoot(env.file_path))
                      ELSE [raised |-> NoExc, text |-> <<>>]
    IN  ToolReturn(tool, tree, env, original, session, after, initial, final,
                   detect_changes(initial, final), refactored,
                   IF original.raised # NoExc THEN original.raised
                   ELSE IF session.raised # NoExc THEN session.raised
                   ELSE refactored.raised)

\* the with statement has been left: the external process changed the tree
\* if the prompt reached it
ToolSession(tool, tree, env, original, session) ==
    LET served == \E i \in 1..Len(session.trace) :
                      session.trace[i] \in {"subprocess.run", "sendline(prompt)"}
        after  == IF served THEN Effected(tree, env.effect) ELSE tree
    IN  ToolAfterSession(tool, tree, env, original, session, after,
                         snapshot(tree, tree, env.order),
                         snapshot(after, after, env.order))

\* One run of a handler on the tree.  env holds the arguments and what the
\* environment answers: file_path (kimi_refactor), the listing order, the
\* answers to the session (which, child, answer, exit) and the effect of the
\* external process on the tree.
ToolHandler(tool, tree, env) ==
    ToolSession(tool, tree, env,
                \* lines 278-284
                IF tool # "kimi_refactor" THEN [raised |-> NoExc, text |-> <<>>]
                ELSE IF Exists(tree, JoinRoot(env.file_path))
                     THEN ReadStrict(tree, JoinRoot(env.file_path))
                ELSE [raised |-> "FileNotFoundError", text |-> <<>>],
                WithSession(KimiSession(ToolInteractive(tool)),
                            [which |-> env.which, child |-> env.child,
                             block |-> "send_prompt", answer |-> env.answer,
                             exit |-> env.exit]))

\* a handler has run and returned run
HandlerReturn(tool, env, run) ==
    /\ lastOp' = tool
    /\ inputs' = env
    /\ fs' = run.tree
    /\ response' = run.response
    /\ raised' = run.raised
    /\ trace' = run.trace
    /\ process' = run.process
    /\ interactive' = ToolInteractive(tool)
    /\ initial_state' = IF run.tracker THEN run.initial_state ELSE EmptyDict
    /\ final_state' = IF run.tracker THEN run.final_state ELSE EmptyDict
    /\ calls' = [initial |-> run.tracker, final |-> run.tracker /\ run.final_taken]
    /\ created' = IF run.tracker THEN run.created ELSE <<>>
    /\ modified' = IF run.tracker THEN run.modified ELSE <<>>
    /\ requested' = run.requested
    /\ contents' = run.contents
    /\ snap' = EmptyDict
    /\ failed' = {}
    /\ returned' = NoValue
    /\ UNCHANGED <<unlistable, other>>
    /\ UNCHANGED alias

HandlerStep(tool, env) == HandlerReturn(tool, env, ToolHandler(tool, fs, env))

kimi_code_task(env) == HandlerStep("kimi_code_task", env)

kimi_analyze_code(env) == HandlerStep("kimi_analyze_code", env)

kimi_prompt(env) == HandlerStep("kimi_prompt", env)

kimi_refactor(env) == HandlerStep("kimi_refactor", env)

kimi_debug(env) == HandlerStep("kimi_debug", env)

\* the files of the handler runs
ServerLocs == {<<NameA>>, <<NameB>>}

NoEffect == <<>>

Write(loc, bytes) == [kind |-> "write", loc |-> loc, bytes |-> bytes]

\* the external process leaves the tree alone, writes a file (a text in
\* either place, or bytes that are no UTF-8), deletes one, or writes two
Effects ==
    { NoEffect,
      <<Write(<<NameA>>, <<Run(65, 1)>>)>>,
      <<Write(<<NameA>>, <<Run(255, 1)>>)>>,
      <<Write(<<NameB>>, <<Run(65, 1)>>)>>,
      <<[kind |-> "delete", loc |-> <<NameA>>, bytes |-> <<>>]>>,
      <<Write(<<NameB>>, <<Run(65, 1)>>), Write(<<NameA>>, <<Run(255, 1)>>)>> }

\* the answer of a child that serves the prompt
Served(mode) ==
    IF mode THEN [kind |-> "index0", before |-> <<"o", "k">>]
    ELSE [kind |-> "completed", returncode |-> 0, stdout |-> <<"o", "k">>, stderr |-> <<>>]

\* the answers a handler's session gets: served, or one of each failure
ToolAnswers(mode) ==
    IF mode
    THEN {Served(mode)} \cup
         [kind : {"index2", "pexpect.TIMEOUT", "pexpect.EOF"}, before : {<<"o", "k">>}]
    ELSE {Served(mode)} \cup
         [kind : {"completed"}, returncode : {1}, stdout : {<<"o", "k">>},
          stderr : {<<>>}] \cup
         [kind : {"subprocess.TimeoutExpired", "FileNotFoundError"},
          returncode : {0}, stdout : {<<>>}, stderr : {<<>>}]

ToolOrder == CHOOSE order \in ScanOrders : TRUE

\* The arguments and answers of one handler run.  What cannot matter is
\* fixed: the answers after a failed spawn, and the child of a one-shot
\* session; the exit goes well.
ToolEnvs(tool) ==
    LET mode  == ToolInteractive(tool)
        paths == IF tool = "kimi_refactor" THEN {PathStr(loc) : loc \in ServerLocs}
                 ELSE {<<>>}
    IN  [file_path : paths, order : {ToolOrder}, which : {TRUE}, child : {"prompt"},
         answer : ToolAnswers(mode), exit : {"eof"}, effect : Effects]
        \cup
        {env \in [file_path : paths, order : {ToolOrder}, which : BOOLEAN,
                  child : IF mode THEN {"prompt", "eof", "error"} ELSE {"prompt"},
                  answer : {Served(mode)}, exit : {"eof"}, effect : {NoEffect}] :
            ~env.which \/ env.child # "prompt"}

\* the tree starts empty and changes only by what the external process
\* does while a handler runs
NextServer ==
    \/ \E env \in ToolEnvs("kimi_code_task") : kimi_code_task(env)
    \/ \E env \in ToolEnvs("kimi_analyze_code") : kimi_analyze_code(env)
    \/ \E env \in ToolEnvs("kimi_prompt") : kimi_prompt(env)
    \/ \E env \in ToolEnvs("kimi_refactor") : kimi_refactor(env)
    \/ \E env \in ToolEnvs("kimi_debug") : kimi_debug(env)

SpecServer == Init /\ [][NextServer]_vars

-----------------------------------------------------------------------------
(* Claims about the handlers, checked under SpecServer                     *)

\* every a in the trace comes before every b
Precedes(a, b) ==
    \A i, j \in 1..Len(trace) : (trace[i] = a /\ trace[j] = b) => i < j

Occurs(a) == a \in Elems(trace)

Count(a) == Cardinality({i \in 1..Len(trace) : trace[i] = a})

\* the calls that hand the prompt to the external process
SendEvents == {"subprocess.run", "sendline(prompt)"}

TrackingTools == {"kimi_code_task", "kimi_prompt", "kimi_refactor", "kimi_debug"}

Succeeded == lastOp \in ToolNames /\ response.success

\* the order of the tracker's and the session's steps in a successful run
StepOrder ==
    /\ Occurs("take_initial_snapshot") /\ Occurs("spawn") /\ Occurs("terminate")
    /\ Occurs("take_final_snapshot") /\ Occurs("detect_changes")
    /\ \E e \in SendEvents : Occurs(e)
    /\ Precedes("take_initial_snapshot", "spawn")
    /\ \A e \in SendEvents :
           /\ Precedes("take_initial_snapshot", e)
           /\ Precedes(e, "take_final_snapshot")
    /\ Precedes("terminate", "take_final_snapshot")
    /\ Precedes("take_final_snapshot", "detect_changes")
    /\ Precedes("detect_changes", "read_file_contents")
    /\ Occurs("read_file_contents") => requested = created \o modified

\* the statement of C12 as given: the handler reads the content of no file
\* but those of created followed by modified
C12_AsStated ==
    (Succeeded /\ lastOp \in TrackingTools) =>
        /\ StepOrder
        /\ Occurs("open(file_path)") => inputs.file_path \in Elems(created \o modified)

\* C12: in a successful run of kimi_code_task, kimi_prompt, kimi_refactor
\* or kimi_debug the initial snapshot precedes spawn and prompt, the final
\* snapshot follows the prompt and terminate, and detect_changes follows
\* the final snapshot.  read_file_contents is called by kimi_code_task and
\* kimi_prompt only, after detect_changes, with created followed by
\* modified; kimi_refactor reads its target file itself, first of all steps
\* and, when the file still exists, again as the last step, whether or not
\* the file changed.
C12_StepOrder ==
    (Succeeded /\ lastOp \in TrackingTools) =>
        /\ StepOrder
        /\ Occurs("read_file_contents") <=> lastOp \in {"kimi_code_task", "kimi_prompt"}
        /\ Occurs("read_file_contents") => response.file_contents = contents
        /\ Occurs("open(file_path)") <=> lastOp = "kimi_refactor"
        /\ lastOp = "kimi_refactor" =>
               /\ trace[1] = "open(file_path)"
               /\ Exists(fs, JoinRoot(inputs.file_path)) =>
                      (trace[Len(trace)] = "open(file_path)" /\ Count("open(file_path)") = 2)

\* kimi_prompt has succeeded and has read the contents of a created and a
\* modified file
C12_Witness ==
    /\ Succeeded
    /\ lastOp = "kimi_prompt"
    /\ created # <<>>
    /\ modified # <<>>
    /\ requested = created \o modified
    /\ Len(response.file_contents) = 2

\* the fields of a result dict that are neither success nor error
Fields == DOMAIN response \ {"success", "error"}

\* the type an exception of class exc is reported with
ReportedType(tool, exc) ==
    IF tool = "kimi_refactor" /\ "FileNotFoundError" \in Bases(exc) THEN "FileNotFoundError"
    ELSE IF "TimeoutError" \in Bases(exc) THEN "TimeoutError"
    ELSE "ExecutionError"

\* C14: a handler lets no exception escape and returns a dict.  After a
\* failure success is False, error holds type and message and every other
\* field is empty; after a completed run success is True and error is None.
\* The type is "TimeoutError" for a TimeoutError, "FileNotFoundError" for a
\* FileNotFoundError in kimi_refactor, and "ExecutionError" otherwise.  The
\* message stands for str(e): the model keeps the class of e in it.
C14_HandlersReturnDicts ==
    lastOp \in ToolNames =>
        /\ raised = NoExc
        /\ {"success", "error"} \subseteq DOMAIN response
        /\ response.success \in BOOLEAN
        /\ response.success => response.error = PyNone
        /\ ~response.success =>
               /\ {"type", "message"} \subseteq DOMAIN response.error
               /\ \A f \in Fields : response[f] = <<>>
               /\ response.error.type = ReportedType(lastOp, response.error.message)
        /\ (/\ Occurs("spawn")
            /\ inputs.which /\ inputs.child = "prompt"
            /\ inputs.answer.kind \in {"subprocess.TimeoutExpired", "pexpect.TIMEOUT"})
               => (~response.success /\ response.error.type = "TimeoutError")
        /\ (inputs.which /\ inputs.child = "prompt" /\ inputs.answer = Served(interactive)
            /\ lastOp # "kimi_refactor")
               => response.success

\* kimi_prompt has failed by a timeout after the external process wrote a
\* file, and reports nothing but the error
C14_Witness ==
    /\ lastOp = "kimi_prompt"
    /\ ~response.success
    /\ response.error.type = "TimeoutError"
    /\ inputs.effect # NoEffect
    /\ DOMAIN fs # {}
    /\ response.files_created = <<>>
    /\ response.file_contents = EmptyDict

\* the sessions a handler run created
Sessions ==
    Count("KimiSession(interactive=True)") + Count("KimiSession(interactive=False)")

\* each handler's mode as the source gives it
FixedMode ==
    /\ lastOp \in {"kimi_code_task", "kimi_refactor"}
           => ~Occurs("KimiSession(interactive=True)")
    /\ lastOp \in {"kimi_analyze_code", "kimi_prompt", "kimi_debug"}
           => ~Occurs("KimiSession(interactive=False)")

\* the statement of C19 as given: every invocation creates exactly one
\* session
C19_AsStated == lastOp \in ToolNames => (FixedMode /\ Sessions = 1)

\* C19: kimi_code_task and kimi_refactor create their session with
\* interactive=False, kimi_analyze_code, kimi_prompt and kimi_debug with
\* interactive=True, whatever the arguments; an invocation creates exactly
\* one session, except that kimi_refactor creates none when reading its
\* target file fails before the initial snapshot.
C19_FixedModeOneSession ==
    lastOp \in ToolNames =>
        /\ FixedMode
        /\ Sessions <= 1
        /\ Sessions = 0 =>
               /\ lastOp = "kimi_refactor"
               /\ ~response.success
               /\ ~Occurs("take_initial_snapshot")
               /\ response.error.type \in {"FileNotFoundError", "ExecutionError"}

\* kimi_debug has run its one interactive session and failed in it
C19_Witness ==
    /\ lastOp = "kimi_debug"
    /\ Sessions = 1
    /\ Occurs("KimiSession(interactive=True)")
    /\ ~response.success

\* C20: kimi_refactor on a path that does not exist returns success =
\* False, error type "FileNotFoundError" and empty content fields, and takes
\* no snapshot, creates no session and sends no prompt.
C20_RefactorMissingFile ==
    [][(lastOp' = "kimi_refactor" /\ ~Exists(fs, JoinRoot(inputs'.file_path))) =>
           /\ ~response'.success
           /\ response'.error.type = "FileNotFoundError"
           /\ response'.original_content = <<>>
           /\ response'.refactored_content = <<>>
           /\ response'.explanation = <<>>
           /\ response'.files_modified = <<>>
           /\ trace' = <<>>
           /\ calls' = [initial |-> FALSE, final |-> FALSE]
           /\ process' = "None"
           /\ fs' = fs]_vars

\* kimi_refactor has reported a missing file although the tree holds
\* another file, and has done nothing else
C20_Witness ==
    /\ lastOp = "kimi_refactor"
    /\ ~response.success
    /\ response.error.type = "FileNotFoundError"
    /\ ~Exists(fs, JoinRoot(inputs.file_path))
    /\ DOMAIN fs # {}
    /\ trace = <<>>

-----------------------------------------------------------------------------
(* utils.validate_file_path                                                *)

Dot == <<".">>
DotDot == <<".", ".">>
NameL == <<"l">>

NoLinks == [q \in {} |-> <<>>]

\* Path(s): whether the string is absolute, and its parts; empty parts and
\* "." parts are dropped when the string is parsed
PathOf(s) ==
    [absolute |-> s # <<>> /\ Head(s) = Sep,
     parts |-> SelectSeq(SplitPath(s, <<>>), LAMBDA c : c # Dot)]

\* os.path.realpath(path, strict=False): the parts are walked from the left;
\* ".." steps to the parent of the directory reached so far (the root is its
\* own parent), a symbolic link is replaced by its target, a part that does
\* not exist is kept as it is
RECURSIVE Realpath(_, _, _)
Realpath(cur, rest, links) ==
    IF rest = <<>> THEN cur
    ELSE IF Head(rest) = Dot THEN Realpath(cur, Tail(rest), links)
    ELSE IF Head(rest) = DotDot
         THEN Realpath(IF cur = <<>> THEN <<>> ELSE SubSeq(cur, 1, Len(cur) - 1),
                       Tail(rest), links)
    ELSE IF Append(cur, Head(rest)) \in DOMAIN links
         THEN Realpath(links[Append(cur, Head(rest))], Tail(rest), links)
    ELSE Realpath(Append(cur, Head(rest)), Tail(rest), links)

\* Path(s).resolve(): a relative path starts from the working directory
resolve(s, cwd, links) ==
    Realpath(IF PathOf(s).absolute THEN <<>> ELSE cwd, PathOf(s).parts, links)

\* what resolved_file.relative_to(resolved_base) raises: ValueError unless the
\* parts of the base are the first parts of the file
relative_to_raises(file, base) ==
    IF Len(file) >= Len(base) /\ \A i \in 1..Len(base) : file[i] = base[i]
    THEN NoExc
    ELSE "ValueError"

\* a plausible slip: only the errors of the operating system are expected
ValidateExcept_oserror == <<<<"RuntimeError", NoExc>>, <<"OSError", NoExc>>>>

\* line 106: except (ValueError, RuntimeError, OSError): return False
ValidateExcept ==
    <<<<"ValueError", NoExc>>, <<"RuntimeError", NoExc>>, <<"OSError", NoExc>>>>

\* what the try block of validate_file_path raises
ValidateTry(file_path, base_dir, cwd, links) ==
    IF file_path = <<>> \/ base_dir = <<>> THEN NoExc
    ELSE relative_to_raises(resolve(file_path, cwd, links),
                            resolve(base_dir, cwd, links))

validate_file_path_raises(file_path, base_dir, cwd, links) ==
    Except(ValidateTry(file_path, base_dir, cwd, links), ValidateExcept)

validate_file_path(file_path, base_dir, cwd, links) ==
    /\ file_path # <<>>
    /\ base_dir # <<>>
    /\ ValidateTry(file_path, base_dir, cwd, links) = NoExc

MaxParts == 3

PathNames == {NameA, NameB, NameL, Dot, DotDot}

PartLists == UNION {[1..n -> PathNames] : n \in 0..MaxParts}

\* the strings: empty, relative, absolute
PathStrings ==
    {PathStr(p) : p \in PartLists} \cup {<<Sep>> \o PathStr(p) : p \in PartLists}

BaseDirs ==
    {<<>>, <<Sep>> \o NameB, NameB, <<Sep>> \o PathStr(<<NameB, NameL>>),
     <<Sep>> \o PathStr(<<NameB, DotDot, NameB>>)}

\* the working directory of the process: the root or /b
Cwds == {<<>>, <<NameB>>}

\* the symbolic links of the tree: none, /b/l -> /a, /l -> /b
LinkTables ==
    {NoLinks, [q \in {<<NameB, NameL>>} |-> <<NameA>>],
     [q \in {<<NameL>>} |-> <<NameB>>]}

ValidateInputs ==
    [file_path : PathStrings, base_dir : BaseDirs, cwd : Cwds, links : LinkTables]

InitUtils ==
    /\ fs = [q \in {} |-> 0]
    /\ initial_state = EmptyDict
    /\ final_state = EmptyDict
    /\ lastOp = "init"
    /\ snap = EmptyDict
    /\ created = <<>>
    /\ modified = <<>>
    /\ requested = <<>>
    /\ contents = EmptyDict
    /\ failed = {}
    /\ calls = [initial |-> FALSE, final |-> FALSE]
    /\ unlistable = {}
    /\ raised = NoExc
    /\ returned = NoValue
    /\ interactive = TRUE
    /\ process = "None"
    /\ trace = <<>>
    /\ inputs \in ValidateInputs
    /\ response = NoValue
    /\ other = FileTracker
    /\ alias = {}

ValidateFilePath ==
    /\ lastOp = "init"
    /\ lastOp' = "validate_file_path"
    /\ raised' = validate_file_path_raises(inputs.file_path, inputs.base_dir,
                                           inputs.cwd, inputs.links)
    /\ returned' = IF raised' # NoExc THEN NoValue
                   ELSE validate_file_path(inputs.file_path, inputs.base_dir,
                                           inputs.cwd, inputs.links)
    /\ UNCHANGED tvars
    /\ UNCHANGED svars

NextUtils == ValidateFilePath

SpecUtils == InitUtils /\ [][NextUtils]_vars

Abs(parts) == <<Sep>> \o PathStr(parts)

\* the resolved file is the resolved base or lies below it
AtOrBelow(file, base) ==
    \/ file = base
    \/ \E k \in 1..Len(file) : SubSeq(file, 1, Len(file) - k) = base

Validated == lastOp = "validate_file_path"

\* C21: validate_file_path never raises and returns True exactly when both
\* arguments are non-empty and the resolved file path is the resolved base
\* directory or lies below it; an empty argument and a path that resolves
\* outside the base give False, whether or not the file exists.
C21_ValidateFilePath ==
    Validated =>
        /\ raised = NoExc
        /\ returned \in BOOLEAN
        /\ returned <=>
              /\ inputs.file_path # <<>>
              /\ inputs.base_dir # <<>>
              /\ AtOrBelow(resolve(inputs.file_path, inputs.cwd, inputs.links),
                           resolve(inputs.base_dir, inputs.cwd, inputs.links))
        /\ inputs.file_path = <<>> \/ inputs.base_dir = <<>> => ~returned
        /\ (/\ inputs.base_dir = Abs(<<NameB>>)
            /\ inputs.links = NoLinks
            /\ inputs.file_path \in {Abs(<<NameB, DotDot, NameA>>), Abs(<<NameA>>),
                                     Abs(<<NameB, DotDot, DotDot>>), Abs(<<>>)})
           => ~returned
        /\ (/\ inputs.base_dir = Abs(<<NameB>>)
            /\ inputs.links = NoLinks
            /\ inputs.file_path \in {Abs(<<NameB>>), Abs(<<NameB, NameA, NameL>>),
                                     Abs(<<NameB, NameA, DotDot>>),
                                     Abs(<<NameA, DotDot, NameB>>)})
           => returned

\* a path with a ".." part that stays inside the base is accepted
C21_Witness ==
    /\ Validated
    /\ raised = NoExc
    /\ returned = TRUE
    /\ inputs.file_path = Abs(<<NameB, NameA, DotDot>>)
    /\ inputs.base_dir = Abs(<<NameB>>)

-----------------------------------------------------------------------------
(* Claims about what the operations of one tracker leave alone, checked    *)
(* under SpecFault                                                         *)

Captures == {"take_initial_snapshot", "take_final_snapshot"}

ReadOnlyOps == {"snapshot", "detect_changes", "read_file_contents"}

StoredNames == {"initial_state", "final_state"}

\* C22: snapshot(), detect_changes() and read_file_contents() leave
\* initial_state and final_state as they were; the mapping snapshot() returns
\* is a new object, not one of the two stored ones; and after a
\* detect_changes() any step that is not a capture leaves the tracker such
\* that detect_changes() returns the same pair again.
C22_ReadOnlyOperations ==
    [][/\ lastOp' \in ReadOnlyOps =>
              /\ initial_state' = initial_state
              /\ final_state' = final_state
       /\ lastOp' = "snapshot" =>
              \A name \in StoredNames : {"snapshot", name} \notin alias'
       /\ (lastOp = "detect_changes" /\ lastOp' \notin Captures) =>
              detect_changes(initial_state', final_state') = <<created, modified>>
      ]_vars

\* snapshot() was called on a tracker that holds two different captures and
\* returned a third mapping
C22_Witness ==
    /\ lastOp = "snapshot"
    /\ calls.initial /\ calls.final
    /\ initial_state # EmptyDict
    /\ final_state # initial_state
    /\ snap # initial_state
    /\ snap # final_state
    /\ alias = {}

-----------------------------------------------------------------------------
(* Two trackers on one working directory                                   *)

\* what an operation of the second tracker leaves alone: the first tracker,
\* the permissions and the session
OtherStep ==
    /\ snap' = EmptyDict
    /\ created' = <<>>
    /\ modified' = <<>>
    /\ requested' = <<>>
    /\ contents' = EmptyDict
    /\ returned' = NoValue
    /\ UNCHANGED <<calls, unlistable>>
    /\ UNCHANGED svars

\* a plausible slip: the states are attributes of the class, so the capture
\* of one tracker is the capture of every tracker
other_take_initial_snapshot_shared(order, gone) ==
    /\ lastOp' = "other.take_initial_snapshot"
    /\ fs' = Without(fs, gone)
    /\ other' = [other EXCEPT !.initial_state = snapshot(fs, fs', order),
                              !.created = <<>>, !.modified = <<>>]
    /\ initial_state' = other'.initial_state
    /\ UNCHANGED final_state
    /\ failed' = FailedOpen(fs, fs', order)
    /\ raised' = snapshot_raises(fs, fs', order)
    /\ alias' = Rebound(Rebound(alias, "other.initial_state"), "initial_state")
                 \cup {{"initial_state", "other.initial_state"}}
    /\ OtherStep

other_take_initial_snapshot(order, gone) ==
    /\ lastOp' = "other.take_initial_snapshot"
    /\ fs' = Without(fs, gone)
    /\ other' = [other EXCEPT !.initial_state = snapshot(fs, fs', order),
                              !.created = <<>>, !.modified = <<>>]
    /\ UNCHANGED <<initial_state, final_state>>
    /\ failed' = FailedOpen(fs, fs', order)
    /\ raised' = snapshot_raises(fs, fs', order)
    /\ alias' = Rebound(alias, "other.initial_state")
    /\ OtherStep

other_take_final_snapshot(order, gone) ==
    /\ lastOp' = "other.take_final_snapshot"
    /\ fs' = Without(fs, gone)
    /\ other' = [other EXCEPT !.final_state = snapshot(fs, fs', order),
                              !.created = <<>>, !.modified = <<>>]
    /\ UNCHANGED <<initial_state, final_state>>
    /\ failed' = FailedOpen(fs, fs', order)
    /\ raised' = snapshot_raises(fs, fs', order)
    /\ alias' = Rebound(alias, "other.final_state")
    /\ OtherStep

other_detect_changes ==
    /\ lastOp' = "other.detect_changes"
    /\ other' = [other EXCEPT
                   !.created = detect_changes(other.initial_state, other.final_state)[1],
                   !.modified = detect_changes(other.initial_state, other.final_state)[2]]
    /\ UNCHANGED <<fs, initial_state, final_state, alias>>
    /\ failed' = {}
    /\ raised' = detect_changes_raises(other.initial_state, other.final_state)
    /\ OtherStep

\* files of the two-tracker runs: one file of two contents
TrackFiles == {<<<<NameA>>, <<Run(65, 1)>>>>, <<<<NameA>>, <<Run(66, 1)>>>>}

TrackLocs == {f[1] : f \in TrackFiles}

NextTrackers ==
    \/ \E f \in TrackFiles : WriteFile(f[1], f[2])
    \/ \E loc \in TrackLocs : DeleteFile(loc)
    \/ \E order \in ScanOrders, gone \in Vanishing : take_initial_snapshot(order, gone)
    \/ \E order \in ScanOrders, gone \in Vanishing : take_final_snapshot(order, gone)
    \/ DetectChanges
    \/ \E order \in ScanOrders, gone \in Vanishing : other_take_initial_snapshot(order, gone)
    \/ \E order \in ScanOrders, gone \in Vanishing : other_take_final_snapshot(order, gone)
    \/ other_detect_changes

SpecTrackers == Init /\ [][NextTrackers]_vars

OwnOps == {"take_initial_snapshot", "take_final_snapshot", "detect_changes"}

OtherOps ==
    {"other.take_initial_snapshot", "other.take_final_snapshot",
     "other.detect_changes"}

OtherNames == {"other.initial_state", "other.final_state"}

\* the created and modified lists that belong to two captures: the keys of
\* the second that the first lacks, and the keys of both whose values differ
DiffOf(initial, final, made, changed) ==
    /\ Elems(made) = {k \in Keys(final) : ~Has(initial, k)}
    /\ Elems(changed) =
          {k \in Keys(final) : Has(initial, k) /\ Get(initial, k) # Get(final, k)}

\* C23: two trackers share no state. No operation of one changes the
\* initial_state or final_state of the other, no state of one is the same
\* object as a state of the other, and the lists detect_changes() returns
\* for a tracker are the difference of that tracker's own two captures.
C23_TrackersShareNoState ==
    [][/\ lastOp' \in OtherOps =>
              /\ initial_state' = initial_state
              /\ final_state' = final_state
       /\ lastOp' \in OwnOps =>
              /\ other'.initial_state = other.initial_state
              /\ other'.final_state = other.final_state
       /\ \A own \in StoredNames, name \in OtherNames : {own, name} \notin alias'
       /\ lastOp' = "detect_changes" =>
              DiffOf(initial_state', final_state', created', modified')
       /\ lastOp' = "other.detect_changes" =>
              DiffOf(other'.initial_state, other'.final_state,
                     other'.created, other'.modified)
      ]_vars

\* the second tracker reports a created file that the first tracker, whose
\* initial capture already holds it, would not report
C23_Witness ==
    /\ lastOp = "other.detect_changes"
    /\ other.created # <<>>
    /\ initial_state # other.initial_state
    /\ final_state = other.final_state
    /\ detect_changes(initial_state, final_state)[1] = <<>>

-----------------------------------------------------------------------------
(* Claims about the fingerprints in the captures, checked under Spec       *)

\* the dict a capture has just stored
Captured ==
    IF lastOp = "take_initial_snapshot" THEN initial_state ELSE final_state

\* the files of the tree that can be read
Readable(tree) == {loc \in DOMAIN tree : tree[loc].readable}

\* C24: the fingerprint of a file depends on its bytes only. A capture gives
\* files of identical bytes at different places the same value; a file that
\* was not touched between two captures has the same value in both; and a
\* file whose bytes at the final capture are those the initial capture
\* fingerprinted (it was left alone or rewritten with the same content) is
\* not reported modified.
C24_FingerprintOfContentOnly ==
    [][/\ lastOp' \in Captures =>
              \A p, q \in Readable(fs') :
                  fs'[p].bytes = fs'[q].bytes =>
                      Get(Captured', PathStr(p)) = Get(Captured', PathStr(q))
       /\ (lastOp = "take_initial_snapshot" /\ lastOp' = "take_final_snapshot") =>
              \A p \in Readable(fs') :
                  Get(final_state', PathStr(p)) = Get(initial_state, PathStr(p))
       /\ lastOp' = "take_final_snapshot" =>
              \A p \in Readable(fs') :
                  (/\ Has(initial_state, PathStr(p))
                   /\ Get(initial_state, PathStr(p)) = calculate_checksum(fs', p))
                  => PathStr(p) \notin Elems(detect_changes(initial_state', final_state')[2])
      ]_vars

\* a final capture of two files of the same bytes, one of which had other
\* bytes at the initial capture
C24_Witness ==
    /\ lastOp = "take_final_snapshot"
    /\ {<<NameA>>, <<NameB>>} \subseteq Readable(fs)
    /\ fs[<<NameA>>].bytes = fs[<<NameB>>].bytes
    /\ Has(initial_state, PathStr(<<NameA>>))
    /\ Has(initial_state, PathStr(<<NameB>>))
    /\ Get(initial_state, PathStr(<<NameA>>)) # Get(initial_state, PathStr(<<NameB>>))
    /\ Get(final_state, PathStr(<<NameA>>)) = Get(final_state, PathStr(<<NameB>>))

-----------------------------------------------------------------------------
(* Claims about the two captures, checked under SpecTrackers               *)

\* the capture of a tree without ignored names: the files that can be read,
\* each with the fingerprint of its bytes
CaptureOf(state, tree) ==
    /\ Keys(state) = {PathStr(p) : p \in Readable(tree)}
    /\ Len(state) = Cardinality(Readable(tree))
    /\ \A p \in Readable(tree) : Get(state, PathStr(p)) = calculate_checksum(tree, p)

\* C25: take_initial_snapshot() replaces initial_state by the capture of the
\* tree and leaves final_state as it was, take_final_snapshot() does the
\* reverse; nothing of the state that was stored before survives, so a path
\* that is no longer in the tree is no longer a key.
C25_CapturesReplace ==
    [][/\ lastOp' = "take_initial_snapshot" =>
              /\ final_state' = final_state
              /\ CaptureOf(initial_state', fs')
              /\ \A k \in Keys(initial_state) :
                     k \notin {PathStr(p) : p \in DOMAIN fs'} => ~Has(initial_state', k)
       /\ lastOp' = "take_final_snapshot" =>
              /\ initial_state' = initial_state
              /\ CaptureOf(final_state', fs')
              /\ \A k \in Keys(final_state) :
                     k \notin {PathStr(p) : p \in DOMAIN fs'} => ~Has(final_state', k)
      ]_vars

\* an initial capture of the empty tree, taken after a final capture that
\* still saw the file
C25_Witness ==
    /\ lastOp = "take_initial_snapshot"
    /\ fs = [q \in {} |-> 0]
    /\ initial_state = EmptyDict
    /\ calls.final
    /\ Has(final_state, PathStr(<<NameA>>))

-----------------------------------------------------------------------------
(* Claims about the one-shot session, checked under SpecSession            *)

\* C26: a one-shot session never owns a process. Whatever was called on it,
\* process is None; spawn() makes no call but the look-up of the executable
\* and raises only when that fails; terminate() makes no call and raises
\* nothing.
C26_OneshotOwnsNoProcess ==
    ~interactive =>
        /\ process = "None"
        /\ lastOp = "spawn" =>
              /\ trace = <<>>
              /\ raised = (IF inputs.which THEN NoExc ELSE "RuntimeError")
        /\ lastOp = "terminate" =>
              /\ trace = <<>>
              /\ raised = NoExc
        /\ lastOp = "with" => "pexpect.spawn" \notin Elems(trace)

\* terminate() on a one-shot session
C26_Witness ==
    /\ ~interactive
    /\ lastOp = "terminate"
    /\ process = "None"
    /\ raised = NoExc

-----------------------------------------------------------------------------
(* Files that bear the name of an ignored directory                        *)

\* /.DS_Store with two contents, /.git as a file, and /.git as a directory
\* that holds a file
NameFiles ==
    {<<<<DSStore>>, <<Run(65, 1)>>>>, <<<<DSStore>>, <<Run(66, 1)>>>>,
     <<<<DotGit>>, <<Run(65, 1)>>>>, <<<<DotGit, NameA>>, <<Run(65, 1)>>>>}

NameLocs == {f[1] : f \in NameFiles}

NextNames ==
    \/ \E f \in NameFiles : WriteFile(f[1], f[2])
    \/ \E loc \in NameLocs : DeleteFile(loc)
    \/ \E order \in ScanOrders, gone \in Vanishing : take_initial_snapshot(order, gone)
    \/ \E order \in ScanOrders, gone \in Vanishing : take_final_snapshot(order, gone)
    \/ DetectChanges

SpecNames == Init /\ [][NextNames]_vars

\* the regular files in the root whose name is in the ignore set
IgnoredNameFiles == {p \in Readable(fs) : Len(p) = 1 /\ p[1] \in IgnoredDirNames}

\* C27: the ignore set is applied to directory names only. A regular file
\* whose name is in the set is fingerprinted and recorded by a capture like
\* any other file, and detect_changes() reports it as created when only the
\* final state holds it and as modified when its two fingerprints differ.
C27_IgnoredNamesAreFiles ==
    /\ lastOp \in Captures =>
          \A p \in IgnoredNameFiles :
              /\ Has(Captured, PathStr(p))
              /\ Get(Captured, PathStr(p)) = <<fs[p].bytes>>
    /\ lastOp = "detect_changes" =>
          \A name \in IgnoredDirNames :
              /\ (Has(final_state, name) /\ ~Has(initial_state, name))
                     => name \in Elems(created)
              /\ (/\ Has(final_state, name)
                  /\ Has(initial_state, name)
                  /\ Get(initial_state, name) # Get(final_state, name))
                     => name \in Elems(modified)

\* .DS_Store is reported modified and the file .git created
C27_Witness ==
    /\ lastOp = "detect_changes"
    /\ DSStore \in Elems(modified)
    /\ DotGit \in Elems(created)

-----------------------------------------------------------------------------
(* Claims about failed handler runs, checked under SpecServer              *)

\* the handlers whose result lists created files and file contents
ReportingTools == {"kimi_code_task", "kimi_prompt"}

-----------------------------------------------------------------------------
(* Files that can be read at one capture only                              *)

\* one file of two contents and a second file
PermFiles ==
    {<<<<NameA>>, <<Run(65, 1)>>>>, <<<<NameA>>, <<Run(66, 1)>>>>,
     <<<<NameB>>, <<Run(65, 1)>>>>}

PermLocs == {f[1] : f \in PermFiles}

NextPerms ==
    \/ \E f \in PermFiles : WriteFile(f[1], f[2])
    \/ \E loc \in PermLocs : Chmod(loc)
    \/ \E order \in ScanOrders, gone \in Vanishing : take_initial_snapshot(order, gone)
    \/ \E order \in ScanOrders, gone \in Vanishing : take_final_snapshot(order, gone)
    \/ DetectChanges

SpecPerms == Init /\ [][NextPerms]_vars

\* the files that are in the tree and cannot be read
Unreadable(tree) == {loc \in DOMAIN tree : ~tree[loc].readable}

\* C29: a file that is there at both captures and can be fingerprinted at
\* one only counts as absent at the other. A capture records no key for a
\* file it cannot read; a file read at the final capture whose key the
\* initial state lacks is reported created; a file that cannot be read at
\* the final capture is in neither list, whatever the initial state holds
\* for it and whatever its bytes are now.
C29_UnreadableIsAbsent ==
    [][/\ lastOp' \in Captures =>
              \A p \in Unreadable(fs') :
                  /\ p \in failed'
                  /\ ~Has(Captured', PathStr(p))
       /\ (lastOp = "take_final_snapshot" /\ lastOp' = "detect_changes") =>
              /\ \A p \in Readable(fs) :
                     ~Has(initial_state, PathStr(p)) => PathStr(p) \in Elems(created')
              /\ \A p \in Unreadable(fs) :
                     /\ PathStr(p) \notin Elems(created')
                     /\ PathStr(p) \notin Elems(modified')
      ]_vars

\* the final capture could not read a file that the initial capture had
\* fingerprinted with other bytes, and the difference of the two is empty
C29_Witness ==
    /\ lastOp = "take_final_snapshot"
    /\ <<NameA>> \in Unreadable(fs)
    /\ <<NameA>> \in failed
    /\ Has(initial_state, PathStr(<<NameA>>))
    /\ Get(initial_state, PathStr(<<NameA>>)) # <<fs[<<NameA>>].bytes>>
    /\ detect_changes(initial_state, final_state) = <<<<>>, <<>>>>

-----------------------------------------------------------------------------
(* The expect of _send_interactive on the characters the child writes      *)

Gt == <<">">>

KimiGt == <<"k", "i", "m", "i", ">">>

\* lines 203-204: the patterns before pexpect.TIMEOUT, in their order
PromptPatterns == <<Gt, KimiGt>>

\* the pattern is in the buffer from position start on
MatchesAt(pattern, buffer, start) ==
    /\ start + Len(pattern) - 1 <= Len(buffer)
    /\ SubSeq(buffer, start, start + Len(pattern) - 1) = pattern

\* re.search: where the first match of the pattern starts, 0 if there is none
SearchStart(pattern, buffer) ==
    IF \E s \in 1..Len(buffer) : MatchesAt(pattern, buffer, s)
    THEN CHOOSE s \in 1..Len(buffer) :
             /\ MatchesAt(pattern, buffer, s)
             /\ \A t \in 1..(s - 1) : ~MatchesAt(pattern, buffer, t)
    ELSE 0

\* a plausible slip: the first pattern of the list that matches anywhere wins
expect_leftmost(patterns, buffer, ends) ==
    LET found == {i \in 1..Len(patterns) : SearchStart(patterns[i], buffer) # 0}
        best  == CHOOSE i \in found : \A j \in found : i <= j
    IN  IF found = {}
        THEN [kind |-> IF ends THEN "pexpect.EOF" ELSE "index2", before |-> buffer]
        ELSE [kind |-> IF best = 1 THEN "index0" ELSE "index1",
              before |-> SubSeq(buffer, 1, SearchStart(patterns[best], buffer) - 1)]

\* process.expect([">", "kimi>", pexpect.TIMEOUT]) on what the child writes
\* before the timeout: the match that starts first wins, and among matches
\* that start together the pattern listed first; before is what precedes the
\* match.  Without a match the call raises EOF when the child has ended and
\* returns the index of TIMEOUT otherwise, before being all that was read.
expect(patterns, buffer, ends) ==
    LET found == {i \in 1..Len(patterns) : SearchStart(patterns[i], buffer) # 0}
        best  == CHOOSE i \in found : \A j \in found :
                     \/ SearchStart(patterns[i], buffer) < SearchStart(patterns[j], buffer)
                     \/ /\ SearchStart(patterns[i], buffer) = SearchStart(patterns[j], buffer)
                        /\ i <= j
    IN  IF found = {}
        THEN [kind |-> IF ends THEN "pexpect.EOF" ELSE "index2", before |-> buffer]
        ELSE [kind |-> IF best = 1 THEN "index0" ELSE "index1",
              before |-> SubSeq(buffer, 1, SearchStart(patterns[best], buffer) - 1)]

MaxChunks == 3

\* the pieces the outputs are made of
Chunks == {<<"a">>, Gt, <<"k", "i", "m", "i">>, KimiGt}

RECURSIVE Flatten(_)
Flatten(pieces) ==
    IF pieces = <<>> THEN <<>> ELSE Head(pieces) \o Flatten(Tail(pieces))

Outputs == {Flatten(pieces) : pieces \in UNION {[1..n -> Chunks] : n \in 0..MaxChunks}}

\* send_prompt on an interactive session whose child writes output and then
\* waits (or ends)
SendPromptOutput(output, ends) ==
    /\ interactive
    /\ SessionStep("send_prompt",
                   send_prompt(Self, expect(PromptPatterns, output, ends)),
                   [answer |-> expect(PromptPatterns, output, ends),
                    output |-> output, process |-> process])
    /\ UNCHANGED interactive

NextPrompt ==
    \/ NewSession(TRUE)
    \/ \E which \in BOOLEAN, child \in Children : Spawn(which, child)
    \/ \E output \in Outputs, ends \in BOOLEAN : SendPromptOutput(output, ends)
    \/ \E exit \in Exits : Terminate(exit)
    \/ ProcessDies

SpecPrompt == Init /\ [][NextPrompt]_vars

\* the position of the first ">" of the output, 0 if there is none
FirstGt(output) == SearchStart(Gt, output)

\* the first ">" ends the word "kimi>"
AfterKimi(output) ==
    /\ FirstGt(output) > 4
    /\ SubSeq(output, FirstGt(output) - 4, FirstGt(output)) = KimiGt

Answered == lastOp = "send_prompt" /\ raised = NoExc

====
